---------------------------- MODULE Spec2Model ----------------------------
(***************************************************************************)
(* A model of the content-formatting engine of generate-spotlights:       *)
(*   - generateInstagramCompactText, generateSocialText and               *)
(*     chunkForTwitterThread            (lib/social-text.js)              *)
(*   - the venue aggregation of generateSingleMovie / generateProgram     *)
(*   - generateCollageHtml              (scripts/lib/collage.js)          *)
(*                                                                         *)
(* A JavaScript string is modelled as the sequence of its UTF-16 code     *)
(* units: one TLA+ string per unit.  A unit outside ASCII is written      *)
(* "uXXXX" (so an emoji is two units, as it is for String.length).        *)
(***************************************************************************)
EXTENDS Integers, Sequences, FiniteSets, TLC

VARIABLES
    igMovies,        \* compact text: the movies argument (catalogue keys)
    igTheme,         \* compact text: which socialText config the caller passes
    igTopPicksCount, \* compact text: config.topPicksCount of the current call
    igDepth,         \* compact text: number of nested calls on the stack
    igPc,            \* compact text: "call", "returned" or "rangeError"
    igOutput,        \* compact text: the text returned by the outermost call
    igTrace,         \* compact text: topPicksCount of every call made so far
    twMovies,        \* thread: the movies argument (catalogue keys)
    twConfig,        \* thread: platform, formatMovieLine and maxLength passed
    twEmoji,         \* thread: what randomEmoji() returns for each movie line
    twMaxChunkSize,  \* thread: the maxChunkSize argument
    twPc,            \* thread: "start", "text" or "done"
    twText,          \* thread: the full-mode text
    twThread,        \* thread: the string chunkForTwitterThread returns
    vnIds,           \* venues: venueIds, in the order the ids were added
    vnPc,            \* venues: "start", "done" or "typeError"
    vnFinalItems,    \* venues: finalItems, the display items that are rendered
    vnMoreVenueCount,\* venues: moreVenueCount
    vnVenuesText,    \* venues: venuesText, the HTML rendering
    vnVenuesPlainText, \* venues: venuesPlainText
    clMovies,        \* collage: the movies argument (catalogue keys)
    clPc,            \* collage: "start" or "done"
    clPosterItems, \* collage: the poster items in the order they are emitted
    lyCount, \* layout: count, the number of movies
    lyPc, \* layout: "start", "map" or "done"
    lyIndex, \* layout: the index of the next call of the map callback
    lyPosterWidth, \* layout: posterWidth, in tenths of a percent
    lyStyle, \* layout: the style of the poster item emitted last
    lcMovies, \* last chance: the keys of data.movies
    lcPc, \* last chance: "start", "collage" or "done"
    lcNow, \* last chance: the clock readings of the passes made so far
    lcEndOfWeek, \* last chance: endOfWeekTimestamp of the latest pass
    lcCollageMovies, \* last chance: the result of the pass with strict filters
    lcAllMovies, \* last chance: the result of the pass without strict filters
    rnPc, \* the position of runSpotlight
    rnFiles, \* the paths runSpotlight has written, in the order of the writes
    rsTheme, \* of each concurrent run, config.name
    rsData, \* of each run, the version of the data it loaded
    rsPc, \* of each run, its position in runSpotlight
    rsHtml, \* of each run, the html it generated
    rsTimestamp, \* of each run, the value getTimestamp returned
    rsClock, \* the wall clock, in minutes
    rsFiles \* the files on disk: path to writer and content

igVars == <<igMovies, igTheme, igTopPicksCount, igDepth, igPc, igOutput, igTrace>>

twVars == <<twMovies, twConfig, twEmoji, twMaxChunkSize, twPc, twText, twThread>>

vnVars == <<vnIds, vnPc, vnFinalItems, vnMoreVenueCount, vnVenuesText,
            vnVenuesPlainText>>

clVars == <<clMovies, clPc, clPosterItems>>

lyVars == <<lyCount, lyPc, lyIndex, lyPosterWidth, lyStyle>>

lcVars == <<lcMovies, lcPc, lcNow, lcEndOfWeek, lcCollageMovies, lcAllMovies>>

rnVars == <<rnPc, rnFiles>>

rsVars == <<rsTheme, rsData, rsPc, rsHtml, rsTimestamp, rsClock, rsFiles>>

vars == <<igVars, twVars, vnVars, clVars, lyVars, lcVars, rnVars, rsVars>>

---------------------------------------------------------------------------
(* Generic helpers *)

SetMin(S) == CHOOSE x \in S : \A y \in S : x <= y

SetMax(S) == CHOOSE x \in S : \A y \in S : x >= y

\* undefined, for a value that is otherwise a string
Undefined == <<"<undefined>">>

\* JavaScript truthiness of a string-or-undefined value (x || y, x ? a : b)
Truthy(s) == s # Undefined /\ s # <<>>

OrElse(s, d) == IF Truthy(s) THEN s ELSE d

\* n copies of the code unit "x"
Filler(n) == [i \in 1..n |-> "x"]

---------------------------------------------------------------------------
(* String operations of the JavaScript runtime, as used by the sources *)

WhiteSpace == {" ", "\n", "\t", "\r"}

Digits == <<"0", "1", "2", "3", "4", "5", "6", "7", "8", "9">>

RECURSIVE NatToStr(_)
NatToStr(n) ==
    IF n < 10 THEN <<Digits[n + 1]>>
    ELSE NatToStr(n \div 10) \o <<Digits[(n % 10) + 1]>>

\* String(n) / template interpolation of an integer
NumToStr(n) == IF n < 0 THEN <<"-">> \o NatToStr(0 - n) ELSE NatToStr(n)

\* pat occurs in s at position i (1-based)
OccursAt(s, pat, i) ==
    /\ i >= 1
    /\ i + Len(pat) - 1 <= Len(s)
    /\ \A k \in 1..Len(pat) : s[i + k - 1] = pat[k]

\* position of the first occurrence of pat in s, 0 when there is none
IndexOf(s, pat) ==
    LET hits == {i \in 1..(Len(s) - Len(pat) + 1) : OccursAt(s, pat, i)}
    IN  IF hits = {} THEN 0 ELSE SetMin(hits)

\* s.startsWith(pat)
StartsWith(s, pat) == OccursAt(s, pat, 1)

\* s.endsWith(pat)
EndsWith(s, pat) == OccursAt(s, pat, Len(s) - Len(pat) + 1)

\* s.replace(pat, by) with a string pattern: the first occurrence only
ReplaceFirst(s, pat, by) ==
    LET i == IndexOf(s, pat)
    IN  IF i = 0 THEN s
        ELSE SubSeq(s, 1, i - 1) \o by \o SubSeq(s, i + Len(pat), Len(s))

\* s.split(sep), sep non-empty
RECURSIVE Split(_, _)
Split(s, sep) ==
    LET i == IndexOf(s, sep)
    IN  IF i = 0 THEN <<s>>
        ELSE <<SubSeq(s, 1, i - 1)>> \o Split(SubSeq(s, i + Len(sep), Len(s)), sep)

\* list.join(sep)
RECURSIVE Join(_, _)
Join(list, sep) ==
    IF list = <<>> THEN <<>>
    ELSE IF Len(list) = 1 THEN list[1]
    ELSE list[1] \o sep \o Join(Tail(list), sep)

\* s.trim()
Trim(s) ==
    LET n == Len(s)
        lead == Cardinality({i \in 1..n : \A k \in 1..i : s[k] \in WhiteSpace})
        trail == Cardinality({i \in 1..n : \A k \in i..n : s[k] \in WhiteSpace})
    IN  IF lead = n THEN <<>> ELSE SubSeq(s, lead + 1, n - trail)

\* array.slice(0, end): a negative end counts from the end of the array
SliceTo(list, end) ==
    LET n == Len(list)
        e == IF end < 0 THEN (IF n + end < 0 THEN 0 ELSE n + end)
             ELSE (IF end > n THEN n ELSE end)
    IN  SubSeq(list, 1, e)

\* array.slice(start), start >= 0
SliceFrom(list, start) == SubSeq(list, start + 1, Len(list))

\* array.filter(keep)
Filter(list, keep(_)) ==
    LET F[i \in 0..Len(list)] ==
            IF i = 0 THEN <<>>
            ELSE F[i - 1] \o (IF keep(list[i]) THEN <<list[i]>> ELSE <<>>)
    IN  F[Len(list)]

\* array.map(f)
Map(list, f(_)) == [i \in 1..Len(list) |-> f(list[i])]

\* array.sort(cmp): the sort is stable, so with a consistent comparator the
\* result is the stable insertion of every element; before(a, b) is cmp(a, b) < 0
InsertSorted(sorted, x, before(_, _)) ==
    LET later == {j \in 1..Len(sorted) : before(x, sorted[j])}
        k == IF later = {} THEN Len(sorted) + 1 ELSE SetMin(later)
    IN  SubSeq(sorted, 1, k - 1) \o <<x>> \o SubSeq(sorted, k, Len(sorted))

SortBy(list, before(_, _)) ==
    LET S[i \in 0..Len(list)] ==
            IF i = 0 THEN <<>> ELSE InsertSorted(S[i - 1], list[i], before)
    IN  S[Len(list)]

\* String.prototype.localeCompare under the root collation, for the
\* characters the model uses: space and punctuation sort before digits,
\* digits before letters; letters compare without case first, and only
\* when that ties, the lower-case letter sorts first.  Any other code unit
\* has rank 0.
CollationOrder ==
    <<" ", "_", "-", ",", ";", ":", "!", "?", ".", "'", "\"", "(", ")", "@",
      "&", "#", "+", "<", ">",
      "0", "1", "2", "3", "4", "5", "6", "7", "8", "9",
      "a", "b", "c", "d", "e", "f", "g", "h", "i", "j", "k", "l", "m",
      "n", "o", "p", "q", "r", "s", "t", "u", "v", "w", "x", "y", "z">>

UpperCase ==
    <<"A", "B", "C", "D", "E", "F", "G", "H", "I", "J", "K", "L", "M",
      "N", "O", "P", "Q", "R", "S", "T", "U", "V", "W", "X", "Y", "Z">>

LowerCase ==
    <<"a", "b", "c", "d", "e", "f", "g", "h", "i", "j", "k", "l", "m",
      "n", "o", "p", "q", "r", "s", "t", "u", "v", "w", "x", "y", "z">>

UpperCaseSet == {UpperCase[i] : i \in 1..Len(UpperCase)}

IsUpper(c) == c \in UpperCaseSet

ToLowerTable ==
    [c \in UpperCaseSet |->
        LowerCase[CHOOSE i \in 1..Len(UpperCase) : UpperCase[i] = c]]

ToLower(c) == IF IsUpper(c) THEN ToLowerTable[c] ELSE c

\* the primary rank of every character that has one, by its lower-case form
PrimaryRankTable ==
    [c \in {CollationOrder[i] : i \in 1..Len(CollationOrder)} \cup UpperCaseSet |->
        CHOOSE i \in 1..Len(CollationOrder) : CollationOrder[i] = ToLower(c)]

PrimaryRank(c) ==
    IF c \in DOMAIN PrimaryRankTable THEN PrimaryRankTable[c] ELSE 0

\* lexicographic comparison of two sequences of integers: -1, 0 or 1
LexCompare(x, y) ==
    LET n == IF Len(x) < Len(y) THEN Len(x) ELSE Len(y)
        diff == {i \in 1..n : x[i] # y[i]}
    IN  IF diff = {}
        THEN (IF Len(x) < Len(y) THEN -1 ELSE IF Len(x) > Len(y) THEN 1 ELSE 0)
        ELSE (IF x[SetMin(diff)] < y[SetMin(diff)] THEN -1 ELSE 1)

LocaleCompare(a, b) ==
    LET primary == LexCompare([i \in 1..Len(a) |-> PrimaryRank(a[i])],
                              [i \in 1..Len(b) |-> PrimaryRank(b[i])])
    IN  IF primary # 0 THEN primary
        ELSE LexCompare([i \in 1..Len(a) |-> IF IsUpper(a[i]) THEN 1 ELSE 0],
                        [i \in 1..Len(b) |-> IF IsUpper(b[i]) THEN 1 ELSE 0])

---------------------------------------------------------------------------
(* Literals of lib/social-text.js *)

Clapper == <<"uD83C", "uDFAC">>

Pin == <<"uD83D", "uDCCD">>

TicketPopcorn == <<"uD83C", "uDF9F", "uD83C", "uDF7F">>

PromoLine ==
    <<"uD83C", "uDF10", " ", "E", "v", "e", "r", "y", " ", "f", "i", "l",
      "m", ",", " ", "e", "v", "e", "r", "y", " ", "c", "i", "n", "e", "m",
      "a", ",", " ", "o", "n", "e", " ", "p", "l", "a", "c", "e", ".", " ",
      "F", "i", "n", "d", " ", "s", "h", "o", "w", "t", "i", "m", "e", "s",
      " ", "a", "t", " ", "C", "l", "u", "s", "t", "e", "r", "f", "l", "i",
      "c", "k", ".", "c", "o", "m">>

NL == <<"\n">>

Separator == <<"-", "-", "-", "\n", "\n">>

CountPlaceholder == <<"{", "{", "c", "o", "u", "n", "t", "}", "}">>

TheseCountPlaceholder == <<"T", "h", "e", "s", "e", " ">> \o CountPlaceholder

UnknownVenue ==
    <<"U", "n", "k", "n", "o", "w", "n", " ", "v", "e", "n", "u", "e">>

TopPicksTitle ==
    Clapper \o <<" ", "T", "O", "P", " ", "P", "I", "C", "K", "S", "\n">>

VenuesTitle == NL \o Pin \o <<" ", "V", "E", "N", "U", "E", "S", "\n">>

MoreVenuesText ==
    <<" ", "m", "o", "r", "e", " ", "v", "e", "n", "u", "e", "s", " ", "w",
      "i", "t", "h", " ", "1", " ", "f", "i", "l", "m", " ", "e", "a", "c",
      "h", "\n">>

FilmsText == <<" ", "f", "i", "l", "m", "s", "\n">>

ImdbText == <<" ", "I", "M", "D", "B", ")">>

\* PLATFORM_LIMITS.instagram
InstagramLimit == 2000

\* default of config.topPicksCount
DefaultTopPicksCount == 15

\* default of config.minFilmsPerVenue
DefaultMinFilmsPerVenue == 2

\* a config field that may be absent is <<>> or <<value>>; this is the
\* destructuring default
DefaultTo(opt, d) == IF opt = <<>> THEN d ELSE opt[1]

---------------------------------------------------------------------------
(* The data the formatters read: venues table and movie summaries *)

\* movie[venueIdField] || "unknown"; an absent field reads as ""
VenueIdOf(movie, venueIdField) ==
    LET id == IF venueIdField \in DOMAIN movie THEN movie[venueIdField] ELSE ""
    IN  IF id = "" THEN "unknown" ELSE id

\* venues[id]?.name || "Unknown venue"
VenueNameOf(venues, id) ==
    OrElse(IF id \in DOMAIN venues THEN venues[id].name ELSE Undefined,
           UnknownVenue)

\* venues[id]?.socials?.[platform]
HandleOf(venues, id, platform) ==
    IF id \in DOMAIN venues /\ platform \in DOMAIN venues[id].socials
    THEN venues[id].socials[platform]
    ELSE Undefined

\* the keys of moviesByVenue, in insertion order
VenueKeys(movies, venueIdField) ==
    LET K[i \in 0..Len(movies)] ==
            IF i = 0 THEN <<>>
            ELSE LET id == VenueIdOf(movies[i], venueIdField)
                     prev == K[i - 1]
                 IN  IF \E j \in 1..Len(prev) : prev[j] = id
                     THEN prev
                     ELSE Append(prev, id)
    IN  K[Len(movies)]

\* moviesByVenue[id]
MoviesByVenue(movies, venueIdField, id) ==
    Filter(movies, LAMBDA m : VenueIdOf(m, venueIdField) = id)

---------------------------------------------------------------------------
(* generateInstagramCompactText *)

\* [...movies].filter((m) => m.rating).sort((a, b) => b.rating - a.rating)
\*            .slice(0, topPicksCount)
TopPicks(movies, topPicksCount) ==
    SliceTo(SortBy(Filter(movies, LAMBDA m : m.rating # 0),
                   LAMBDA a, b : b.rating - a.rating < 0),
            topPicksCount)

\* venueList: one entry per venue, sorted by film count, largest first
VenueList(movies, venueIdField) ==
    SortBy(Map(VenueKeys(movies, venueIdField),
               LAMBDA id : [venueId |-> id,
                            count |-> Len(MoviesByVenue(movies, venueIdField, id))]),
           LAMBDA a, b : b.count - a.count < 0)

CompactIntro(intro, n) ==
    ReplaceFirst(ReplaceFirst(intro, TheseCountPlaceholder, CountPlaceholder),
                 CountPlaceholder, NumToStr(n))

TopPickLine(movie, venues, venueIdField) ==
    movie.title \o <<" ", "@", " ">>
    \o VenueNameOf(venues, IF venueIdField \in DOMAIN movie
                           THEN movie[venueIdField] ELSE "")
    \o NL

VenueCountLine(v, venues) ==
    LET handle == HandleOf(venues, v.venueId, "instagram")
    IN  VenueNameOf(venues, v.venueId)
        \o (IF Truthy(handle) THEN <<" ", "@">> \o handle ELSE <<>>)
        \o <<" ", "-", " ">> \o NumToStr(v.count) \o FilmsText

\* the output of one call, before its length is compared with the limit
CompactOutput(movies, venues, config) ==
    LET venueIdField == DefaultTo(config.venueIdField, "lastVenueId")
        topPicksCount == DefaultTo(config.topPicksCount, DefaultTopPicksCount)
        minFilms == DefaultTo(config.minFilmsPerVenue, DefaultMinFilmsPerVenue)
        topPicks == TopPicks(movies, topPicksCount)
        venueList == VenueList(movies, venueIdField)
        multiFilmVenues == Filter(venueList, LAMBDA v : v.count >= minFilms)
        singleFilmCount == Len(Filter(venueList, LAMBDA v : v.count < minFilms))
    IN  Clapper \o <<" ">> \o config.header \o <<" ">> \o Clapper \o NL \o NL
        \o CompactIntro(config.intro, Len(movies)) \o <<" ">> \o TicketPopcorn
        \o NL \o NL
        \o PromoLine \o NL \o NL
        \o Separator
        \o TopPicksTitle
        \o Join(Map(topPicks, LAMBDA m : TopPickLine(m, venues, venueIdField)), <<>>)
        \o VenuesTitle
        \o Join(Map(multiFilmVenues, LAMBDA v : VenueCountLine(v, venues)), <<>>)
        \o (IF singleFilmCount > 0
            THEN <<"+">> \o NumToStr(singleFilmCount) \o MoreVenuesText
            ELSE <<>>)
        \o NL \o Separator
        \o config.hashtags \o NL \o NL
        \o config.footer

---------------------------------------------------------------------------
(* Inputs of the compact text: a venues table, a movie catalogue, configs *)

MaxMovies == 3

\* capacity of the engine's call stack, in frames of generateInstagramCompactText
MaxCallDepth == 12

NoSocials == [x \in {} |-> Undefined]

\* the venues table (data.venues): v1 has handles, v3 has no name
VenueTable ==
    [v1 |-> [name |-> <<"R", "i", "o">>, groupName |-> Undefined,
             socials |-> [instagram |-> <<"r", "i", "o">>,
                          twitter |-> <<"r", "i", "o", "c", "i", "n", "e", "m", "a">>]],
     v2 |-> [name |-> <<"G", "e", "n", "e", "s", "i", "s">>,
             groupName |-> Undefined, socials |-> NoSocials],
     v3 |-> [name |-> Undefined, groupName |-> Undefined, socials |-> NoSocials]]

IgCatalogue ==
    [A |-> [id |-> "A", title |-> <<"A", "l", "i", "e", "n">>, rating |-> 8, lastVenueId |-> "v1"],
     B |-> [id |-> "B", title |-> Filler(900), rating |-> 7, lastVenueId |-> "v1"],
     C |-> [id |-> "C", title |-> Filler(900), rating |-> 9, lastVenueId |-> "v2"],
     D |-> [id |-> "D", title |-> <<"B", "r", "a", "z", "i", "l">>, rating |-> 0, lastVenueId |-> ""],
     E |-> [id |-> "E", title |-> Filler(150), rating |-> 6, lastVenueId |-> "v9"],
     F |-> [id |-> "F", title |-> <<"F", "a", "r", "g", "o">>, rating |-> 8, lastVenueId |-> "v3"]]

\* sequences without repetition, of length at most n, over S
InjectiveSeqs(S, n) ==
    {q \in UNION {[1..k -> S] : k \in 0..n} :
        \A i, j \in DOMAIN q : i # j => q[i] # q[j]}

NewFilmsHeader ==
    <<"N", "E", "W", " ", "F", "I", "L", "M", "S", " ", "T", "H", "I", "S",
      " ", "W", "E", "E", "K", "!">>

NewFilmsIntro ==
    <<"T", "h", "e", "s", "e", " ", "{", "{", "c", "o", "u", "n", "t", "}",
      "}", " ", "f", "i", "l", "m", "s", " ", "j", "u", "s", "t", " ", "l",
      "a", "n", "d", "e", "d", " ", "t", "h", "i", "s", " ", "w", "e", "e",
      "k", " ", "i", "n", " ", "L", "o", "n", "d", "o", "n", " ", "c", "i",
      "n", "e", "m", "a", "s", " ", "-", " ", "c", "h", "e", "c", "k", " ",
      "t", "h", "e", "m", " ", "o", "u", "t", "!">>

NewFilmsHashtags ==
    <<"#", "N", "e", "w", "F", "i", "l", "m", "s", " ", "#", "L", "o", "n",
      "d", "o", "n", "C", "i", "n", "e", "m", "a", " ", "#", "I", "n", "d",
      "i", "e", "F", "i", "l", "m", " ", "#", "C", "l", "u", "s", "t", "e",
      "r", "f", "l", "i", "c", "k">>

NewFilmsFooter ==
    <<"uD83C", "uDF7F", " ", "F", "r", "e", "s", "h", " ", "p", "o", "p",
      "c", "o", "r", "n", ",", " ", "f", "r", "e", "s", "h", " ", "f", "i",
      "l", "m", "s", ".", " ", "W", "h", "a", "t", " ", "a", "r", "e", " ",
      "y", "o", "u", " ", "w", "a", "i", "t", "i", "n", "g", " ", "f", "o",
      "r", "?">>

\* the socialText config of generate-new-films.js, and the same config with
\* a footer that alone fills the Instagram budget
IgThemes ==
    [newFilms |-> [header |-> NewFilmsHeader, intro |-> NewFilmsIntro,
                   hashtags |-> NewFilmsHashtags, footer |-> NewFilmsFooter,
                   venueIdField |-> <<"lastVenueId">>,
                   minFilmsPerVenue |-> <<>>],
     longFooter |-> [header |-> NewFilmsHeader, intro |-> NewFilmsIntro,
                     hashtags |-> NewFilmsHashtags,
                     footer |-> Filler(InstagramLimit),
                     venueIdField |-> <<"lastVenueId">>,
                     minFilmsPerVenue |-> <<>>]]

IgTopPicksCounts == {<<>>, <<-1>>, <<0>>, <<1>>, <<3>>}

IgMovieList == Map(igMovies, LAMBDA k : IgCatalogue[k])

\* the config argument of the current call
IgConfig ==
    [f \in DOMAIN IgThemes[igTheme] \cup {"topPicksCount"} |->
        IF f = "topPicksCount" THEN igTopPicksCount ELSE IgThemes[igTheme][f]]

IgTopPicksCount == DefaultTo(igTopPicksCount, DefaultTopPicksCount)

---------------------------------------------------------------------------
(* The state of a component that a specification does not exercise *)

IgIdle ==
    /\ igMovies = <<>>
    /\ igTheme = "newFilms"
    /\ igTopPicksCount = <<>>
    /\ igDepth = 0
    /\ igPc = "idle"
    /\ igOutput = <<>>
    /\ igTrace = <<>>

TwIdle ==
    /\ twMovies = <<>>
    /\ twConfig = [platform |-> "twitter", formatMovieLine |-> <<>>,
                   maxLength |-> <<>>]
    /\ twEmoji = <<>>
    /\ twMaxChunkSize = 0
    /\ twPc = "idle"
    /\ twText = <<>>
    /\ twThread = <<>>

VnIdle ==
    /\ vnIds = <<>>
    /\ vnPc = "idle"
    /\ vnFinalItems = <<>>
    /\ vnMoreVenueCount = 0
    /\ vnVenuesText = <<>>
    /\ vnVenuesPlainText = <<>>

ClIdle ==
    /\ clMovies = <<>>
    /\ clPc = "idle"
    /\ clPosterItems = <<>>

LyIdle ==
    /\ lyCount = 0
    /\ lyPc = "idle"
    /\ lyIndex = 0
    /\ lyPosterWidth = 0
    /\ lyStyle = <<>>

LcIdle ==
    /\ lcMovies = {}
    /\ lcPc = "idle"
    /\ lcNow = <<>>
    /\ lcEndOfWeek = 0
    /\ lcCollageMovies = <<>>
    /\ lcAllMovies = <<>>

RnIdle ==
    /\ rnPc = "idle"
    /\ rnFiles = <<>>

RsIdle ==
    /\ rsTheme = <<>>
    /\ rsData = <<>>
    /\ rsPc = <<>>
    /\ rsHtml = <<>>
    /\ rsTimestamp = <<>>
    /\ rsClock = 0
    /\ rsFiles = <<>>

---------------------------------------------------------------------------
(* The call of generateInstagramCompactText and its recursive retries *)

IgInit ==
    /\ igMovies \in InjectiveSeqs(DOMAIN IgCatalogue, MaxMovies)
    /\ igTheme \in DOMAIN IgThemes
    /\ igTopPicksCount \in IgTopPicksCounts
    /\ igDepth = 1
    /\ igPc = "call"
    /\ igOutput = <<>>
    /\ igTrace = <<IgTopPicksCount>>
    /\ TwIdle
    /\ VnIdle
    /\ ClIdle
    /\ LyIdle
    /\ LcIdle
    /\ RnIdle
    /\ RsIdle

\* One invocation: build the text; return it when it fits, otherwise call
\* again with topPicksCount - 2.  A call that finds the stack full raises
\* RangeError, which nothing catches.
GenerateInstagramCompactText ==
    /\ igPc = "call"
    /\ LET output == CompactOutput(IgMovieList, VenueTable, IgConfig)
       IN  IF Len(output) > InstagramLimit
           THEN IF igDepth < MaxCallDepth
                THEN /\ igTopPicksCount' = <<IgTopPicksCount - 2>>
                     /\ igDepth' = igDepth + 1
                     /\ igTrace' = Append(igTrace, IgTopPicksCount - 2)
                     /\ UNCHANGED <<igPc, igOutput>>
                ELSE /\ igPc' = "rangeError"
                     /\ UNCHANGED <<igTopPicksCount, igDepth, igOutput, igTrace>>
           ELSE /\ igPc' = "returned"
                /\ igOutput' = output
                /\ UNCHANGED <<igTopPicksCount, igDepth, igTrace>>
    /\ UNCHANGED <<igMovies, igTheme, twVars, vnVars, clVars, lyVars, lcVars, rnVars,
                   rsVars>>

IgNext == GenerateInstagramCompactText

SpecCompact == IgInit /\ [][IgNext]_vars

---------------------------------------------------------------------------
(* Properties of the compact text *)

IgRetries == Len(igTrace) - 1

IgInitialCount == igTrace[1]

\* C1: a call of generateInstagramCompactText ends either by returning a
\* text of at most 2000 code units or, when no top-picks count makes the
\* text fit, in an explicit budget-exceeded failure.
C1_FitsOrBudgetExceeded ==
    igPc # "call" =>
        \/ igPc = "returned" /\ Len(igOutput) <= InstagramLimit
        \/ igPc = "budgetExceeded"

\* C2: the retries stop once the count cannot shrink further: a call makes
\* no more retries than its initial top-picks count, and it terminates.
C2_RetriesBoundedByInitialCount ==
    /\ IgRetries <= (IF IgInitialCount < 0 THEN 0 ELSE IgInitialCount)
    /\ igPc # "rangeError"

\* C15: a configuration whose top-picks count is zero or negative is
\* rejected with a configuration error before any text is formatted: the
\* call never returns a post for it.
C15_InvalidCountRejected ==
    IgInitialCount <= 0 => igPc \in {"call", "configurationError"}

\* the lines of the top-picks section of the returned text: what stands
\* between the title of the section and the title of the venues section
IgTopPickLines ==
    LET section == Split(Split(igOutput, Separator)[2], VenuesTitle)[1]
        lines == Split(SubSeq(section, Len(TopPicksTitle) + 1, Len(section)), NL)
    IN  SubSeq(lines, 1, Len(lines) - 1)

\* C28: the top-picks section of the returned text lists the N highest-rated
\* movies, N the top-picks count of the call that returned: it has
\* min(N, number of rated movies) lines, each the line of a rated movie of
\* its own, in descending order of rating, and no movie without a line is
\* rated higher than a movie with one.
C28_TopPicksAreTheNBest ==
    igPc = "returned" =>
        \E movies \in {IgMovieList}, lines \in {IgTopPickLines} :
            LET all == 1..Len(movies)
                rated == {i \in all : movies[i].rating # 0}
                lineOf(i) == SliceTo(TopPickLine(movies[i], VenueTable,
                                                 "lastVenueId"), -1)
                listed == {i \in all : \E l \in 1..Len(lines) : lines[l] = lineOf(i)}
                movieAt(l) == CHOOSE i \in all : lines[l] = lineOf(i)
                \* a count below zero asks for no line at all
                n == IF IgTopPicksCount < 0 THEN 0 ELSE IgTopPicksCount
            IN  /\ Len(lines) <= n
                /\ Len(lines) = (IF n < Cardinality(rated) THEN n
                                 ELSE Cardinality(rated))
                /\ \A l \in 1..Len(lines) : \E i \in rated : lines[l] = lineOf(i)
                /\ Cardinality(listed) = Len(lines)
                /\ listed \subseteq rated
                /\ \A l \in 1..(Len(lines) - 1) :
                      movies[movieAt(l)].rating >= movies[movieAt(l + 1)].rating
                /\ \A i \in listed, j \in all \ listed :
                      movies[j].rating <= movies[i].rating

---------------------------------------------------------------------------
(* generateSocialText (full mode) *)

\* the emojis array of generateSocialText
Emojis ==
    <<<<"uD83C", "uDFAC">>, <<"uD83C", "uDFA5">>, <<"uD83D", "uDCFD">>,
      <<"u2728">>, <<"u2B50">>, <<"uD83C", "uDF7F">>>>

MoreIndicator ==
    <<"\n", "+", "m", "o", "r", "e", " ", "a", "t", " ", "c", "l", "u",
      "s", "t", "e", "r", "f", "l", "i", "c", "k", ".", "c", "o", "m", "\n">>

\* PLATFORM_LIMITS[platform]: only instagram has an entry
PlatformLimit(platform) ==
    IF platform = "instagram" THEN <<InstagramLimit>> ELSE <<>>

\* maxLength ?? PLATFORM_LIMITS[platform] ?? null; 0 stands for null
CharLimit(config) ==
    IF config.maxLength # <<>> THEN config.maxLength[1]
    ELSE DefaultTo(PlatformLimit(config.platform), 0)

IsCompact(platform) == platform = "instagram" \/ platform = "twitter"

\* defaultFormatLine; emoji is the value randomEmoji() returns for this line
DefaultFormatLine(movie, compact, emoji) ==
    LET ratingText == IF movie.rating # 0
                      THEN <<" ", "(">> \o NumToStr(movie.rating) \o ImdbText
                      ELSE <<>>
    IN  IF compact THEN movie.title \o ratingText \o NL
        ELSE <<" ", " ", " ">> \o emoji \o <<" ">> \o movie.title
             \o ratingText \o NL

\* socialText.formatMovieLine of generate-new-films.js
NewFilmsFormatLine(movie, compact) ==
    IF compact THEN movie.title \o NL
    ELSE <<" ", " ", " ">> \o Clapper \o <<" ">> \o movie.title \o NL

\* formatLine = formatMovieLine || defaultFormatLine
FormatLine(config, movie, compact, emoji) ==
    IF config.formatMovieLine = <<>>
    THEN DefaultFormatLine(movie, compact, emoji)
    ELSE NewFilmsFormatLine(movie, compact)

\* a variant of SortedVenueIds that leaves the keys in insertion order
SortedVenueIdsUnsorted(movies, venues, venueIdField) ==
    VenueKeys(movies, venueIdField)

\* Object.keys(moviesByVenue).sort(by venue name)
SortedVenueIds(movies, venues, venueIdField) ==
    SortBy(VenueKeys(movies, venueIdField),
           LAMBDA a, b : LocaleCompare(VenueNameOf(venues, a),
                                       VenueNameOf(venues, b)) < 0)

HeaderSection(config, count) ==
    Clapper \o <<" ">> \o config.header \o <<" ">> \o Clapper \o NL \o NL
    \o ReplaceFirst(config.intro, CountPlaceholder, NumToStr(count))
    \o <<" ">> \o TicketPopcorn \o NL \o NL
    \o PromoLine \o NL \o NL
    \o Separator

FooterSection(config) ==
    Separator \o config.hashtags \o NL \o NL \o config.footer

\* the venueText of one venue: the venue line, its movie lines sorted by
\* title, and a blank line; emojiOf[id] is the random emoji of the line of movie id
VenueSection(movies, venues, config, venueId, emojiOf) ==
    LET platform == config.platform
        compact == IsCompact(platform)
        venueIdField == DefaultTo(config.venueIdField, "lastVenueId")
        handle == HandleOf(venues, venueId, platform)
        handleText == IF Truthy(handle) THEN <<" ", "@">> \o handle ELSE <<>>
        venueMovies == SortBy(MoviesByVenue(movies, venueIdField, venueId),
                              LAMBDA a, b : LocaleCompare(a.title, b.title) < 0)
    IN  Pin \o <<" ">> \o VenueNameOf(venues, venueId)
        \o (IF compact THEN handleText
            ELSE IF handleText # <<>>
                 THEN <<" ", "(">> \o Trim(handleText) \o <<")">>
                 ELSE <<>>)
        \o NL
        \o Join(Map(venueMovies,
                    LAMBDA m : FormatLine(config, m, compact, emojiOf[m.id])),
                <<>>)
        \o NL

VenueSections(movies, venues, config, emojiOf) ==
    Map(SortedVenueIds(movies, venues, DefaultTo(config.venueIdField, "lastVenueId")),
        LAMBDA id : VenueSection(movies, venues, config, id, emojiOf))

\* a variant of IncludedSections that skips a section that does not fit and
\* goes on with the next
IncludedSectionsSkipping(sections, headerLen, footerLen, charLimit) ==
    LET F[i \in 0..Len(sections)] ==
            IF i = 0 THEN [content |-> <<>>, all |-> TRUE]
            ELSE LET prev == F[i - 1]
                 IN  IF headerLen + Len(prev.content) + Len(sections[i])
                        + footerLen <= charLimit
                     THEN [content |-> prev.content \o sections[i],
                           all |-> prev.all]
                     ELSE [content |-> prev.content, all |-> FALSE]
    IN  F[Len(sections)]

\* the sections that fit: the longest prefix such that header + content +
\* section + footer stays within the limit at every step
IncludedSections(sections, headerLen, footerLen, charLimit) ==
    LET F[i \in 0..Len(sections)] ==
            IF i = 0 THEN [content |-> <<>>, all |-> TRUE]
            ELSE LET prev == F[i - 1]
                 IN  IF ~prev.all THEN prev
                     ELSE IF headerLen + Len(prev.content) + Len(sections[i])
                             + footerLen <= charLimit
                          THEN [content |-> prev.content \o sections[i],
                                all |-> TRUE]
                          ELSE [content |-> prev.content, all |-> FALSE]
    IN  F[Len(sections)]

GenerateSocialText(movies, venues, config, emojiOf) ==
    LET headerSection == HeaderSection(config, Len(movies))
        footerSection == FooterSection(config)
        venueSections == VenueSections(movies, venues, config, emojiOf)
        charLimit == CharLimit(config)
        inc == IncludedSections(venueSections, Len(headerSection),
                                Len(footerSection), charLimit)
    IN  IF charLimit = 0
        THEN headerSection \o Join(venueSections, <<>>) \o footerSection
        ELSE IF inc.all
             THEN headerSection \o inc.content \o footerSection
             ELSE headerSection \o inc.content \o MoreIndicator \o footerSection

---------------------------------------------------------------------------
(* chunkForTwitterThread *)

ThreadMarker ==
    <<"\n", "\n", "-", "-", "-", "T", "H", "R", "E", "A", "D", "-", "-",
      "-", "\n", "\n">>

\* default of maxChunkSize
DefaultMaxChunkSize == 280

\* counterReserve
CounterReserve == 10

\* the venue blocks parsed from the venues part of the text: a line that
\* starts with the pin closes the block before it
VenueBlocks(venuesContent) ==
    LET lines == Split(venuesContent, NL)
        F[i \in 0..Len(lines)] ==
            IF i = 0 THEN [blocks |-> <<>>, currentBlock |-> <<>>]
            ELSE LET prev == F[i - 1]
                 IN  IF StartsWith(lines[i], Pin) /\ Trim(prev.currentBlock) # <<>>
                     THEN [blocks |-> Append(prev.blocks, Trim(prev.currentBlock)),
                           currentBlock |-> lines[i] \o NL]
                     ELSE [blocks |-> prev.blocks,
                           currentBlock |-> prev.currentBlock \o lines[i] \o NL]
        last == F[Len(lines)]
    IN  IF Trim(last.currentBlock) # <<>>
        THEN Append(last.blocks, Trim(last.currentBlock))
        ELSE last.blocks

\* chunks.push(currentChunk.trim()) when currentChunk.trim() is not empty
PushChunk(chunks, currentChunk) ==
    IF Trim(currentChunk) # <<>> THEN Append(chunks, Trim(currentChunk))
    ELSE chunks

\* the loop over the lines of a block longer than effectiveMax; st is the
\* state of chunks and currentChunk the loop starts from
PackLines(st, lines, effectiveMax) ==
    LET F[i \in 0..Len(lines)] ==
            IF i = 0 THEN st
            ELSE LET prev == F[i - 1]
                     cur == prev.currentChunk
                 IN  IF Len(cur) + Len(lines[i]) + 1 <= effectiveMax
                     THEN [chunks |-> prev.chunks,
                           currentChunk |->
                               cur \o (IF cur # <<>> THEN NL ELSE <<>>) \o lines[i]]
                     ELSE [chunks |-> PushChunk(prev.chunks, cur),
                           currentChunk |-> lines[i]]
    IN  F[Len(lines)]

\* st with block appended to the current chunk
AppendBlock(st, block) ==
    [chunks |-> st.chunks,
     currentChunk |->
         st.currentChunk
         \o (IF st.currentChunk # <<>> THEN NL \o NL ELSE <<>>) \o block]

\* a variant of PlaceBlock that does not save the current chunk before a
\* block that does not fit replaces it
PlaceBlockNoSave(st, block, effectiveMax) ==
    IF Len(st.currentChunk) + Len(block) + 2 <= effectiveMax
    THEN AppendBlock(st, block)
    ELSE IF Len(block) > effectiveMax
         THEN PackLines([chunks |-> st.chunks, currentChunk |-> <<>>],
                        Split(block, NL), effectiveMax)
         ELSE [chunks |-> st.chunks, currentChunk |-> block]

\* one iteration of the loop over venueBlocks
PlaceBlock(st, block, effectiveMax) ==
    IF Len(st.currentChunk) + Len(block) + 2 <= effectiveMax
    THEN AppendBlock(st, block)
    ELSE IF Len(block) > effectiveMax
         THEN PackLines([chunks |-> PushChunk(st.chunks, st.currentChunk),
                         currentChunk |-> <<>>],
                        Split(block, NL), effectiveMax)
         ELSE [chunks |-> PushChunk(st.chunks, st.currentChunk),
               currentChunk |-> block]

\* a variant of NumberedChunk that counts the chunks from zero
NumberedChunkFromZero(chunk, i, total) ==
    chunk \o NL \o <<"(">> \o NumToStr(i - 1) \o <<"/">> \o NumToStr(total) \o <<")">>

\* chunk i of total, with its counter on a new line
NumberedChunk(chunk, i, total) ==
    chunk \o NL \o <<"(">> \o NumToStr(i) \o <<"/">> \o NumToStr(total) \o <<")">>

\* the list numberedChunks
ThreadChunks(text, maxChunkSize) ==
    LET effectiveMax == maxChunkSize - CounterReserve
        parts == Split(text, Separator)
        header == Trim(parts[1])
        venuesContent == IF Len(parts) >= 2 THEN parts[2] ELSE <<>>
        footer == Trim(Join(SliceFrom(parts, 2), Separator))
        venueBlocks == VenueBlocks(venuesContent)
        F[i \in 0..Len(venueBlocks)] ==
            IF i = 0 THEN [chunks |-> <<header>>, currentChunk |-> <<>>]
            ELSE PlaceBlock(F[i - 1], venueBlocks[i], effectiveMax)
        body == PushChunk(F[Len(venueBlocks)].chunks,
                          F[Len(venueBlocks)].currentChunk)
        chunks == IF footer # <<>> THEN Append(body, footer) ELSE body
    IN  [i \in 1..Len(chunks) |-> NumberedChunk(chunks[i], i, Len(chunks))]

ChunkForTwitterThread(text, maxChunkSize) ==
    Join(ThreadChunks(text, maxChunkSize), ThreadMarker)

---------------------------------------------------------------------------
(* The twitter branch of runSpotlight: generateSocialText, then
   chunkForTwitterThread on its result *)

TwCatalogue ==
    [A |-> [id |-> "A", title |-> <<"A", "l", "i", "e", "n">>, rating |-> 8,
            lastVenueId |-> "v1"],
     B |-> [id |-> "B", title |-> <<"B", "r", "a", "z", "i", "l">>, rating |-> 0,
            lastVenueId |-> "v1"],
     C |-> [id |-> "C",
            title |-> <<"C", "a", "s", "a", "b", "l", "a", "n", "c", "a">>,
            rating |-> 9, lastVenueId |-> "v2"],
     D |-> [id |-> "D", title |-> Filler(DefaultMaxChunkSize), rating |-> 7,
            lastVenueId |-> ""],
     P |-> [id |-> "P", title |-> Pin \o <<" ", "Z", "o", "o">>, rating |-> 0,
            lastVenueId |-> "v1"],
     E |-> [id |-> "E", title |-> <<"E", "r", "a", "s", "e", "r", "h", "e", "a", "d">>,
            rating |-> 7, lastVenueId |-> "v9"],
     F |-> [id |-> "F", title |-> <<"F", "a", "r", "g", "o">>, rating |-> 8,
            lastVenueId |-> "v3"],
     G |-> [id |-> "G", title |-> Filler(60), rating |-> 0,
            lastVenueId |-> "v2"],
     H |-> [id |-> "H", title |-> <<"H", "e", "a", "t">>, rating |-> 8,
            lastVenueId |-> ""]]

\* the movies of the runs that are chunked into a thread
TwThreadKeys == {"A", "B", "C", "D", "P"}

MaxThreadMovies == 2

TwChunkSizes == {DefaultMaxChunkSize, 90, 50, 30}

\* the indices into Emojis that randomEmoji() is let to return: one emoji of
\* two code units and one of one code unit
EmojiPicks == {1, 4}

TwConfigs ==
    {[platform |-> p, formatMovieLine |-> f, maxLength |-> <<>>] :
        p \in {"twitter", "null"}, f \in {<<>>, <<"newFilms">>}}

TwMovieList == Map(twMovies, LAMBDA k : TwCatalogue[k])

\* the config generateSocialText receives: the theme's socialText and the
\* platform
TwFullConfig ==
    [header |-> NewFilmsHeader, intro |-> NewFilmsIntro,
     hashtags |-> NewFilmsHashtags, footer |-> NewFilmsFooter,
     venueIdField |-> <<"lastVenueId">>,
     platform |-> twConfig.platform,
     formatMovieLine |-> twConfig.formatMovieLine,
     maxLength |-> twConfig.maxLength]

TwEmojiOf == [k \in DOMAIN twEmoji |-> Emojis[twEmoji[k]]]

TwInit ==
    /\ twMovies \in InjectiveSeqs(TwThreadKeys, MaxThreadMovies)
    /\ twConfig \in TwConfigs
    /\ twEmoji \in [{twMovies[i] : i \in DOMAIN twMovies} -> EmojiPicks]
    /\ (twConfig.formatMovieLine # <<>> \/ IsCompact(twConfig.platform))
           => \A k \in DOMAIN twEmoji : twEmoji[k] = 1
    /\ twMaxChunkSize \in TwChunkSizes
    /\ twPc = "start"
    /\ twText = <<>>
    /\ twThread = <<>>
    /\ IgIdle
    /\ VnIdle
    /\ ClIdle
    /\ LyIdle
    /\ LcIdle
    /\ RnIdle
    /\ RsIdle

TwGenerateSocialText ==
    /\ twPc = "start"
    /\ twText' = GenerateSocialText(TwMovieList, VenueTable, TwFullConfig, TwEmojiOf)
    /\ twPc' = "text"
    /\ UNCHANGED <<twMovies, twConfig, twEmoji, twMaxChunkSize, twThread, igVars,
                   vnVars, clVars, lyVars, lcVars, rnVars, rsVars>>

TwChunkForTwitterThread ==
    /\ twPc = "text"
    /\ twThread' = ChunkForTwitterThread(twText, twMaxChunkSize)
    /\ twPc' = "done"
    /\ UNCHANGED <<twMovies, twConfig, twEmoji, twMaxChunkSize, twText, igVars,
                   vnVars, clVars, lyVars, lcVars, rnVars, rsVars>>

TwNext == TwGenerateSocialText \/ TwChunkForTwitterThread

SpecThread == TwInit /\ [][TwNext]_vars

---------------------------------------------------------------------------
(* Properties of the thread chunker, read off the returned string *)

\* the chunks of the returned thread, counters included
TwChunks == Split(twThread, ThreadMarker)

\* a chunk without its last line, the counter
ChunkBody(chunk) ==
    LET lines == Split(chunk, NL)
    IN  Join(SubSeq(lines, 1, Len(lines) - 1), NL)

TwBodies == Map(TwChunks, ChunkBody)

TwEffectiveMax == twMaxChunkSize - CounterReserve

\* the venue blocks of the full-mode text, as generateSocialText built them
TwVenueBlocks ==
    Map(VenueSections(TwMovieList, VenueTable, TwFullConfig, TwEmojiOf), Trim)

\* the lines of s that are not blank, without surrounding white space
NonBlankLines(s) == Filter(Map(Split(s, NL), Trim), LAMBDA l : l # <<>>)

\* C3: every chunk of the thread, counter included, is at most
\* maxChunkSize code units long.
C3_EveryChunkWithinLimit ==
    twPc = "done" =>
        \A i \in 1..Len(TwChunks) : Len(TwChunks[i]) <= twMaxChunkSize

\* the sequence part occurs in the sequence whole, as consecutive elements
OccursIn(whole, part) ==
    \E i \in 1..(Len(whole) - Len(part) + 1) :
        SubSeq(whole, i, i + Len(part) - 1) = part

\* C4: the lines of a venue block no longer than the effective limit are
\* found together in one chunk; a longer block is split between lines
\* only, so each of its lines is a line of some chunk.
C4_BlocksSplitOnlyWhenOversized ==
    twPc = "done" =>
        \A i \in 1..Len(TwVenueBlocks) :
            LET block == TwVenueBlocks[i]
            IN  IF Len(block) <= TwEffectiveMax
                THEN \E j \in 1..Len(TwBodies) :
                        OccursIn(NonBlankLines(TwBodies[j]), NonBlankLines(block))
                ELSE \A k \in 1..Len(NonBlankLines(block)) :
                        \E j \in 1..Len(TwBodies) :
                            \E l \in 1..Len(NonBlankLines(TwBodies[j])) :
                                NonBlankLines(TwBodies[j])[l]
                                    = NonBlankLines(block)[k]

CounterLine(i, total) ==
    NL \o <<"(">> \o NumToStr(i) \o <<"/">> \o NumToStr(total) \o <<")">>

---------------------------------------------------------------------------
(* generateSocialText called on its own: every platform, with and without
   an explicit maxLength *)

SoKeys == {"A", "B", "C", "E", "F", "G", "H"}

MaxSocialMovies == 3

\* no limit, a limit below header and footer, limits that leave room for
\* one or two venue sections
SoMaxLengths == {<<>>, <<290>>, <<340>>, <<400>>}

SoConfigs ==
    {[platform |-> p, formatMovieLine |-> <<>>, maxLength |-> l] :
        p \in {"twitter", "instagram", "null"}, l \in SoMaxLengths}

SoInit ==
    /\ twMovies \in InjectiveSeqs(SoKeys, MaxSocialMovies)
    /\ twConfig \in SoConfigs
    /\ \E pick \in EmojiPicks :
          /\ twEmoji = [k \in {twMovies[i] : i \in DOMAIN twMovies} |-> pick]
          /\ IsCompact(twConfig.platform) => pick = 1
    /\ twMaxChunkSize = DefaultMaxChunkSize
    /\ twPc = "start"
    /\ twText = <<>>
    /\ twThread = <<>>
    /\ IgIdle
    /\ VnIdle
    /\ ClIdle
    /\ LyIdle
    /\ LcIdle
    /\ RnIdle
    /\ RsIdle

SoNext == TwGenerateSocialText

SpecSocial == SoInit /\ [][SoNext]_vars

---------------------------------------------------------------------------
(* Properties of the full-mode text *)

SoHeader == HeaderSection(TwFullConfig, Len(twMovies))

SoFooter == FooterSection(TwFullConfig)

SoLimit == CharLimit(TwFullConfig)

\* the venue blocks in bucket order
SoSections == VenueSections(TwMovieList, VenueTable, TwFullConfig, TwEmojiOf)

\* the length of the text with the first k blocks and no marker
SoLengthWith(k) ==
    Len(SoHeader) + Len(Join(SubSeq(SoSections, 1, k), <<>>)) + Len(SoFooter)

\* the number of blocks the greedy inclusion takes: the blocks are taken one
\* by one while the text stays within the limit
SoIncludedCount ==
    SetMax({k \in 0..Len(SoSections) :
               \A j \in 1..k : SoLengthWith(j) <= SoLimit})

\* C24: with a character limit the text holds a prefix of the venue blocks
\* in bucket order: the blocks are taken while header, blocks and footer
\* stay within the limit, no block after the first one that overflows is
\* taken, and the "+more at clusterflick.com" marker stands before the
\* footer exactly when a block was left out.
C24_IncludedBlocksArePrefix ==
    (twPc = "text" /\ SoLimit > 0) =>
        twText = SoHeader
                 \o Join(SubSeq(SoSections, 1, SoIncludedCount), <<>>)
                 \o (IF SoIncludedCount < Len(SoSections) THEN MoreIndicator
                     ELSE <<>>)
                 \o SoFooter

\* a block is left out, and a block after it would have fitted in its place
C24_Witness ==
    /\ twPc = "text"
    /\ SoLimit > 0
    /\ SoIncludedCount + 1 < Len(SoSections)
    /\ \E j \in (SoIncludedCount + 2)..Len(SoSections) :
          SoLengthWith(SoIncludedCount) + Len(SoSections[j]) <= SoLimit

\* C25: with a character limit the returned text is never longer than the
\* limit.
C25_TextWithinLimit ==
    (twPc = "text" /\ SoLimit > 0) => Len(twText) <= SoLimit

\* the text between the header and the footer
SoBody == SubSeq(twText, Len(SoHeader) + 1, Len(twText) - Len(SoFooter))

\* the venue blocks of the text, each one as its lines: the blocks end with
\* a blank line
SoBlocks ==
    Map(Filter(Split(SoBody, NL \o NL), LAMBDA block : block # <<>>),
        LAMBDA block : Split(block, NL))

\* the line of a movie, without its line feed
SoMovieLine(movie) ==
    LET line == FormatLine(TwFullConfig, movie, IsCompact(TwFullConfig.platform),
                           TwEmojiOf[movie.id])
    IN  SubSeq(line, 1, Len(line) - 1)

\* the text is header, blocks and footer; the movies are grouped by key, one
\* block per key, every movie on one line of one block under the name of
\* its venue; the blocks are in the order of their venue names, the lines of
\* a block in the order of the titles
SoGroupedBy(key(_)) ==
    \E movies \in {TwMovieList}, blocks \in {SoBlocks} :
      \E lines \in {[i \in 1..Len(movies) |-> SoMovieLine(movies[i])]},
         names \in {[i \in 1..Len(movies) |->
                       VenueNameOf(VenueTable,
                                   VenueIdOf(movies[i], "lastVenueId"))]} :
        LET all == 1..Len(movies)
            \* the blocks that have the line of the movie
            blocksOf(i) == {b \in 1..Len(blocks) :
                               \E l \in 2..Len(blocks[b]) : blocks[b][l] = lines[i]}
            \* the movie of a line of a block
            movieAt(b, l) == CHOOSE i \in all : lines[i] = blocks[b][l]
        IN  /\ StartsWith(twText, SoHeader)
            /\ EndsWith(twText, SoFooter)
            /\ Len(blocks) = Cardinality({key(movies[i]) : i \in all})
            /\ \A b \in 1..Len(blocks) :
                  /\ Len(blocks[b]) >= 2
                  /\ \A l \in 2..Len(blocks[b]) :
                        \E i \in all : lines[i] = blocks[b][l]
            /\ \A i \in all :
                  /\ Cardinality(blocksOf(i)) = 1
                  /\ \A b \in blocksOf(i) :
                        /\ Cardinality({l \in 2..Len(blocks[b]) :
                                           blocks[b][l] = lines[i]}) = 1
                        /\ StartsWith(blocks[b][1], Pin \o <<" ">> \o names[i])
            /\ \A i, j \in all :
                  (key(movies[i]) = key(movies[j])) <=> (blocksOf(i) = blocksOf(j))
            /\ \A b \in 1..(Len(blocks) - 1) :
                  LocaleCompare(names[movieAt(b, 2)], names[movieAt(b + 1, 2)]) <= 0
            /\ \A b \in 1..Len(blocks) :
                  \A l \in 2..(Len(blocks[b]) - 1) :
                      LocaleCompare(movies[movieAt(b, l)].title,
                                    movies[movieAt(b, l + 1)].title) <= 0

\* the bucket of the claim: the venue of the movie, or "unknown" when the
\* field is missing or the venue is not in the table
SoBucketOrUnknown(movie) ==
    LET id == VenueIdOf(movie, "lastVenueId")
    IN  IF id \in DOMAIN VenueTable THEN id ELSE "unknown"

\* C27 as stated: without a character limit every movie is in exactly one
\* block, the block of its venue, or the one block of the "unknown" bucket
\* when its field is missing or its venue is not in the table; blocks are in
\* the order of the venue names and movies in the order of the titles.
C27_MoviesInVenueOrUnknownBlock ==
    (twPc = "text" /\ SoLimit = 0) => SoGroupedBy(SoBucketOrUnknown)

\* C27 as amended: without a character limit every movie is in exactly one
\* block, the block of the id in its venueIdField ("unknown" when the field
\* is missing); a block whose id is not in the table, or whose venue has no
\* name, is shown as "Unknown venue", so several blocks can have that name;
\* blocks are in the order of the venue names and movies in the order of the
\* titles, both as localeCompare orders them.
C27_MoviesGroupedByVenueId ==
    (twPc = "text" /\ SoLimit = 0) =>
        SoGroupedBy(LAMBDA movie : VenueIdOf(movie, "lastVenueId"))

\* two movies in the block of one venue, after the block of a venue that is
\* not in the table, the movies given in another order
C27_Witness ==
    /\ twPc = "text"
    /\ SoLimit = 0
    /\ Len(SoBlocks) = 2
    /\ Len(SoBlocks[1]) = 3
    /\ twMovies[1] = "E"
    /\ twMovies[2] = "B"

---------------------------------------------------------------------------
(* The venue aggregator of generateSingleMovie and generateProgram: the ids
   of the venues with upcoming performances become the venue sentence *)

MAX_DISPLAY_ITEMS == 7

\* text.replace(/&/g, ...) and the four replacements after it: every
\* character is replaced on its own, and no replacement produces a character
\* that a later one replaces
EscapeChar(c) ==
    IF c = "&" THEN <<"&", "a", "m", "p", ";">>
    ELSE IF c = "<" THEN <<"&", "l", "t", ";">>
    ELSE IF c = ">" THEN <<"&", "g", "t", ";">>
    ELSE IF c = "\"" THEN <<"&", "q", "u", "o", "t", ";">>
    ELSE IF c = "'" THEN <<"&", "#", "0", "3", "9", ";">>
    ELSE <<c>>

EscapeHtml(text) ==
    LET E[i \in 0..Len(text)] ==
            IF i = 0 THEN <<>>
            ELSE LET prev == E[i - 1] IN prev \o EscapeChar(text[i])
    IN  E[Len(text)]

SpanOpen ==
    <<"<", "s", "p", "a", "n", " ", "c", "l", "a", "s", "s", "=", "\"",
      "v", "e", "n", "u", "e", "-", "n", "a", "m", "e", "\"", ">">>

SpanClose == <<"<", "/", "s", "p", "a", "n", ">">>

CommaSpace == <<",", " ">>

Ampersand == <<" ", "&", " ">>

CommaAmpersand == <<",", " ", "&", " ">>

MoreSuffix == <<" ", "m", "o", "r", "e">>

UndefinedText == <<"u", "n", "d", "e", "f", "i", "n", "e", "d">>

WrapVenue(name) == SpanOpen \o EscapeHtml(name) \o SpanClose

\* data.venues: two venues of the Picturehouse group, five of the ODEON
\* group, one venue that is alone in its group, venues without a group
\* (groupName missing or empty) and a venue without a name
DataVenues ==
    [p1 |-> [name |-> <<"P", "i", "c", "t", "u", "r", "e", "h", "o", "u", "s", "e", " ", "C",
             "e", "n", "t", "r", "a", "l">>,
             groupName |-> <<"P", "i", "c", "t", "u", "r", "e", "h", "o", "u", "s", "e">>],
     p2 |-> [name |-> <<"H", "a", "c", "k", "n", "e", "y", " ", "P", "i", "c", "t", "u", "r",
             "e", "h", "o", "u", "s", "e">>,
             groupName |-> <<"P", "i", "c", "t", "u", "r", "e", "h", "o", "u", "s", "e">>],
     o1 |-> [name |-> <<"O", "D", "E", "O", "N", " ", "C", "a", "m", "d", "e", "n">>,
             groupName |-> <<"O", "D", "E", "O", "N">>],
     o2 |-> [name |-> <<"O", "D", "E", "O", "N", " ", "C", "o", "v", "e", "n", "t", " ", "G",
             "a", "r", "d", "e", "n">>,
             groupName |-> <<"O", "D", "E", "O", "N">>],
     o3 |-> [name |-> <<"O", "D", "E", "O", "N", " ", "G", "r", "e", "e", "n", "w", "i", "c",
             "h">>,
             groupName |-> <<"O", "D", "E", "O", "N">>],
     o4 |-> [name |-> <<"O", "D", "E", "O", "N", " ", "H", "o", "l", "l", "o", "w", "a", "y">>,
             groupName |-> <<"O", "D", "E", "O", "N">>],
     o5 |-> [name |-> <<"O", "D", "E", "O", "N", " ", "S", "t", "r", "e", "a", "t", "h", "a",
             "m">>,
             groupName |-> <<"O", "D", "E", "O", "N">>],
     r1 |-> [name |-> <<"R", "i", "o">>,
             groupName |-> Undefined],
     c1 |-> [name |-> <<"C", "u", "r", "z", "o", "n", " ", "S", "o", "h", "o">>,
             groupName |-> <<"C", "u", "r", "z", "o", "n">>],
     b1 |-> [name |-> <<"B", "a", "r", "b", "i", "c", "a", "n">>,
             groupName |-> Undefined],
     b2 |-> [name |-> <<"B", "F", "I", " ", "S", "o", "u", "t", "h", "b", "a", "n", "k">>,
             groupName |-> <<"B", "F", "I", " ", "C", "i", "n", "e", "m", "a", "s">>],
     b3 |-> [name |-> <<"B", "F", "I", " ", "I", "M", "A", "X">>,
             groupName |-> <<"B", "F", "I", " ", "C", "i", "n", "e", "m", "a", "s">>],
     g1 |-> [name |-> <<"G", "e", "n", "e", "s", "i", "s">>,
             groupName |-> <<>>],
     a1 |-> [name |-> <<"B", "a", "r", " ", "&", " ", "S", "c", "r", "e", "e", "n">>,
             groupName |-> Undefined],
     n1 |-> [name |-> Undefined,
             groupName |-> Undefined],
     d1 |-> [name |-> <<"1", "0", "0", " ", "C", "l", "u", "b">>,
             groupName |-> Undefined],
     d2 |-> [name |-> <<"2", "1", "S", "o", "h", "o">>,
             groupName |-> Undefined],
     d3 |-> [name |-> <<"3", " ", "M", "i", "l", "l", "s", " ", "S", "t", "u", "d", "i", "o", "s">>,
             groupName |-> Undefined],
     d4 |-> [name |-> <<"4", "0", " ", "M", "a", "l", "t", "b", "y", " ", "S", "t", "r", "e", "e", "t">>,
             groupName |-> Undefined]]

\* a variant of VenueData that keeps an entry for an id missing from the
\* table
VenueDataKeepsMissing(ids) ==
    [i \in 1..Len(ids) |->
        IF ids[i] \in DOMAIN DataVenues THEN DataVenues[ids[i]]
        ELSE [name |-> <<"?">>, groupName |-> Undefined]]

\* Array.from(venueIds).map((id) => data.venues[id]).filter(Boolean)
VenueData(ids) ==
    Map(Filter(ids, LAMBDA id : id \in DOMAIN DataVenues),
        LAMBDA id : DataVenues[id])

\* the keys of groupedVenues, in the order they were created
GroupNames(venueData) ==
    LET G[i \in 0..Len(venueData)] ==
            IF i = 0 THEN <<>>
            ELSE LET prev == G[i - 1]
                     groupName == venueData[i].groupName
                 IN  IF Truthy(groupName)
                        /\ \A j \in 1..Len(prev) : prev[j] # groupName
                     THEN Append(prev, groupName)
                     ELSE prev
    IN  G[Len(venueData)]

\* groupedVenues[groupName]: the names of the group's venues
GroupedVenues(venueData, groupName) ==
    Map(Filter(venueData, LAMBDA venue : venue.groupName = groupName),
        LAMBDA venue : venue.name)

\* the names of the venues without a group
UngroupedVenues(venueData) ==
    Map(Filter(venueData, LAMBDA venue : ~Truthy(venue.groupName)),
        LAMBDA venue : venue.name)

\* a variant of Plural that appends "s" to every group name
PluralAlwaysAppends(groupName) == groupName \o <<"s">>

Plural(groupName) ==
    IF EndsWith(groupName, <<"s">>) THEN groupName ELSE groupName \o <<"s">>

\* a variant of GroupItem that counts a group as one venue
GroupItemCountsOne(groupName, venueNames) ==
    IF Len(venueNames) = 1
    THEN [text |-> venueNames[1], venueCount |-> 1]
    ELSE [text |-> NatToStr(Len(venueNames)) \o <<" ">> \o Plural(groupName),
          venueCount |-> 1]

\* the display item of one group
GroupItem(groupName, venueNames) ==
    IF Len(venueNames) = 1
    THEN [text |-> venueNames[1], venueCount |-> 1]
    ELSE [text |-> NatToStr(Len(venueNames)) \o <<" ">> \o Plural(groupName),
          venueCount |-> Len(venueNames)]

\* ungroupedVenues.sort((a, b) => a.localeCompare(b)): sort() puts undefined
\* elements last without calling the comparator
SortNames(names) ==
    SortBy(Filter(names, LAMBDA n : n # Undefined),
           LAMBDA a, b : LocaleCompare(a, b) < 0)
    \o Filter(names, LAMBDA n : n = Undefined)

\* a variant of DisplayItems that groups the chains whatever the number of
\* venues
DisplayItemsAlwaysGrouped(venueData) ==
    Map(SortBy(GroupNames(venueData), LAMBDA a, b : LocaleCompare(a, b) < 0),
        LAMBDA groupName :
            GroupItem(groupName, GroupedVenues(venueData, groupName)))
    \o Map(SortNames(UngroupedVenues(venueData)),
           LAMBDA name : [text |-> name, venueCount |-> 1])

\* displayItems before the final sort
DisplayItems(venueData) ==
    IF Len(venueData) <= MAX_DISPLAY_ITEMS
    THEN Map(venueData, LAMBDA venue : [text |-> venue.name, venueCount |-> 1])
    ELSE Map(SortBy(GroupNames(venueData),
                    LAMBDA a, b : LocaleCompare(a, b) < 0),
             LAMBDA groupName :
                 GroupItem(groupName, GroupedVenues(venueData, groupName)))
         \o Map(SortNames(UngroupedVenues(venueData)),
                LAMBDA name : [text |-> name, venueCount |-> 1])

\* b.text as localeCompare reads its argument: undefined becomes "undefined"
ComparedText(text) == IF text = Undefined THEN UndefinedText ELSE text

\* a variant of SortDisplayItems that leaves the items as they were built
SortDisplayItemsSkipped(displayItems) == displayItems

\* displayItems.sort((a, b) => a.text.localeCompare(b.text)), when no call
\* of the comparator has an item without text as its a
SortDisplayItems(displayItems) ==
    SortBy(displayItems,
           LAMBDA a, b :
               LocaleCompare(ComparedText(a.text), ComparedText(b.text)) < 0)

\* The comparator throws a TypeError when its a is an item without text.
\* Which items sort() passes as a is left to the engine: with two or more
\* items, one of them without text, both outcomes are possible.
SortThrows(displayItems) ==
    IF Len(displayItems) >= 2
       /\ \E i \in 1..Len(displayItems) : displayItems[i].text = Undefined
    THEN BOOLEAN
    ELSE {FALSE}

FinalItems(displayItems) ==
    IF Len(displayItems) > MAX_DISPLAY_ITEMS
    THEN SubSeq(displayItems, 1, MAX_DISPLAY_ITEMS - 1)
    ELSE displayItems

RECURSIVE SumVenueCount(_)
SumVenueCount(items) ==
    IF items = <<>> THEN 0
    ELSE items[1].venueCount + SumVenueCount(Tail(items))

\* a variant of MoreVenueCount that counts the removed items
MoreVenueCountOfItems(displayItems) ==
    IF Len(displayItems) > MAX_DISPLAY_ITEMS
    THEN Len(displayItems) - (MAX_DISPLAY_ITEMS - 1)
    ELSE 0

MoreVenueCount(displayItems) ==
    IF Len(displayItems) > MAX_DISPLAY_ITEMS
    THEN SumVenueCount(SubSeq(displayItems, MAX_DISPLAY_ITEMS,
                              Len(displayItems)))
    ELSE 0

\* venuesText: the HTML rendering
\* a variant of VenuesText that joins the "N more" entry without the comma
VenuesTextMoreWithoutComma(finalItems, moreVenueCount) ==
    LET wrapped == Map(finalItems, LAMBDA item : WrapVenue(item.text))
        n == Len(finalItems)
    IN  IF moreVenueCount > 0
        THEN Join(wrapped, CommaSpace) \o Ampersand
             \o WrapVenue(NatToStr(moreVenueCount) \o MoreSuffix)
        ELSE IF n = 1 THEN wrapped[1]
        ELSE IF n = 2 THEN wrapped[1] \o Ampersand \o wrapped[2]
        ELSE IF n > 2
             THEN Join(SliceTo(wrapped, -1), CommaSpace) \o CommaAmpersand
                  \o wrapped[n]
        ELSE <<>>

VenuesText(finalItems, moreVenueCount) ==
    LET wrapped == Map(finalItems, LAMBDA item : WrapVenue(item.text))
        n == Len(finalItems)
    IN  IF moreVenueCount > 0
        THEN Join(wrapped, CommaSpace) \o CommaAmpersand
             \o WrapVenue(NatToStr(moreVenueCount) \o MoreSuffix)
        ELSE IF n = 1 THEN wrapped[1]
        ELSE IF n = 2 THEN wrapped[1] \o Ampersand \o wrapped[2]
        ELSE IF n > 2
             THEN Join(SliceTo(wrapped, -1), CommaSpace) \o CommaAmpersand
                  \o wrapped[n]
        ELSE <<>>

\* a variant of VenuesPlainText that joins the last of three or more
\* entries without the comma
VenuesPlainTextNoComma(finalItems, moreVenueCount) ==
    LET texts == Map(finalItems, LAMBDA item : item.text)
        n == Len(finalItems)
    IN  IF moreVenueCount > 0
        THEN Join(texts, CommaSpace) \o CommaAmpersand
             \o NatToStr(moreVenueCount) \o MoreSuffix
        ELSE IF n = 1 THEN texts[1]
        ELSE IF n = 2 THEN texts[1] \o Ampersand \o texts[2]
        ELSE IF n > 2
             THEN Join(SliceTo(texts, -1), CommaSpace) \o Ampersand \o texts[n]
        ELSE <<>>

\* venuesPlainText: the plain rendering
VenuesPlainText(finalItems, moreVenueCount) ==
    LET texts == Map(finalItems, LAMBDA item : item.text)
        n == Len(finalItems)
    IN  IF moreVenueCount > 0
        THEN Join(texts, CommaSpace) \o CommaAmpersand
             \o NatToStr(moreVenueCount) \o MoreSuffix
        ELSE IF n = 1 THEN texts[1]
        ELSE IF n = 2 THEN texts[1] \o Ampersand \o texts[2]
        ELSE IF n > 2
             THEN Join(SliceTo(texts, -1), CommaSpace) \o CommaAmpersand
                  \o texts[n]
        ELSE <<>>

\* an id that a showing refers to and data.venues does not hold
MissingVenueId == "x1"

\* two orders in which the showings can name the venues
VenueIdOrders ==
    {<<"o3", "r1", "p2", "b1", "o1", "x1", "c1", "o5", "g1", "n1", "p1",
       "a1", "b3", "o2", "b2", "o4", "d4", "d3", "d2", "d1">>,
     <<"d2", "d1", "d4", "d3", "n1", "o4", "b2", "o2", "b3", "a1", "p1",
       "g1", "o5", "c1", "x1", "o1", "b1", "p2", "r1", "o3">>}

OdeonIds == <<"o1", "o2", "o3", "o4", "o5">>

PicturehouseIds == <<"p1", "p2">>

BfiIds == <<"b2", "b3">>

\* the chosen members of a chain are the first ones of its list
IsPrefixChoice(S, chain) ==
    \A i \in 2..Len(chain) : chain[i] \in S => chain[i - 1] \in S

\* the venues whose names begin with a digit, which sort among the groups
DigitIds == {"d1", "d2", "d3", "d4"}

\* the sets of venues with upcoming performances: the sets without a venue
\* of DigitIds, and the chains with all the venues of DigitIds
VenueIdSets ==
    {S \in SUBSET ((DOMAIN DataVenues \ DigitIds) \cup {MissingVenueId}) :
        /\ IsPrefixChoice(S, OdeonIds)
        /\ IsPrefixChoice(S, PicturehouseIds)
        /\ IsPrefixChoice(S, BfiIds)}
    \cup {DigitIds \cup S :
             S \in {S \in SUBSET {"o1", "o2", "o3", "o4", "o5", "p1", "p2",
                                  "b2", "b3", "r1", "x1"} :
                       /\ IsPrefixChoice(S, OdeonIds)
                       /\ IsPrefixChoice(S, PicturehouseIds)
                       /\ IsPrefixChoice(S, BfiIds)}}

VnInit ==
    /\ \E S \in VenueIdSets, order \in VenueIdOrders :
          vnIds = Filter(order, LAMBDA id : id \in S)
    /\ vnPc = "start"
    /\ vnFinalItems = <<>>
    /\ vnMoreVenueCount = 0
    /\ vnVenuesText = <<>>
    /\ vnVenuesPlainText = <<>>
    /\ IgIdle
    /\ TwIdle
    /\ ClIdle
    /\ LyIdle
    /\ LcIdle
    /\ RnIdle
    /\ RsIdle

\* from venueData to venuesText and venuesPlainText; WrapVenue throws a
\* TypeError on an item without text, before the plain text is built
AggregateVenues ==
    /\ vnPc = "start"
    /\ \E displayItems \in {DisplayItems(VenueData(vnIds))} :
         \E throws \in SortThrows(displayItems) :
           \E sorted \in {SortDisplayItems(displayItems)} :
             LET finalItems == FinalItems(sorted)
                 moreVenueCount == MoreVenueCount(sorted)
             IN  IF throws
                    \/ \E i \in 1..Len(finalItems) : finalItems[i].text = Undefined
                 THEN /\ vnPc' = "typeError"
                      /\ UNCHANGED <<vnFinalItems, vnMoreVenueCount,
                                     vnVenuesText, vnVenuesPlainText>>
                 ELSE /\ vnPc' = "done"
                      /\ vnFinalItems' = finalItems
                      /\ vnMoreVenueCount' = moreVenueCount
                      /\ vnVenuesText' = VenuesText(finalItems, moreVenueCount)
                      /\ vnVenuesPlainText' =
                             VenuesPlainText(finalItems, moreVenueCount)
    /\ UNCHANGED <<vnIds, igVars, twVars, clVars, lyVars, lcVars, rnVars, rsVars>>

VnNext == AggregateVenues

SpecVenues == VnInit /\ [][VnNext]_vars

---------------------------------------------------------------------------
(* Properties of the venue aggregator *)

\* the venues resolved from the venue table
VnVenueData == VenueData(vnIds)

\* the text of the "N more" entry
MoreEntry(n) == NatToStr(n) \o MoreSuffix

\* C6: when the venue sentence has been rendered, the venue counts of the
\* kept display items and the count of the "N more" entry add up to the
\* number of venues resolved from the venue table, and the count that is
\* missing from the kept items is the one both renderings show last.
C6_VenueCountsAddUp ==
    vnPc = "done" =>
        LET rest == Len(VnVenueData) - SumVenueCount(vnFinalItems)
        IN  /\ rest = vnMoreVenueCount
            /\ rest >= 0
            /\ rest > 0 =>
                  /\ EndsWith(vnVenuesPlainText,
                              CommaAmpersand \o MoreEntry(rest))
                  /\ EndsWith(vnVenuesText,
                              CommaAmpersand \o WrapVenue(MoreEntry(rest)))

\* a rendering with a chain grouped into one item and with an "N more" entry
C6_Witness ==
    /\ vnPc = "done"
    /\ vnMoreVenueCount > 0
    /\ \E i \in 1..Len(vnFinalItems) : vnFinalItems[i].venueCount > 1

\* the number of times x occurs in the sequence
Occurrences(list, x) == Cardinality({i \in 1..Len(list) : list[i] = x})

\* C7: for 7 venues or fewer there is exactly one display item per venue,
\* with venueCount 1 and the venue's own name, and no "N more" entry, even
\* when several of the venues share a group name.
C7_SmallSetsListEveryVenue ==
    (vnPc = "done" /\ Len(VnVenueData) <= MAX_DISPLAY_ITEMS) =>
        /\ Len(vnFinalItems) = Len(VnVenueData)
        /\ vnMoreVenueCount = 0
        /\ \A i \in 1..Len(vnFinalItems) : vnFinalItems[i].venueCount = 1
        /\ \A i \in 1..Len(VnVenueData) :
              Occurrences(Map(vnFinalItems, LAMBDA item : item.text),
                          VnVenueData[i].name)
              = Occurrences(Map(VnVenueData, LAMBDA venue : venue.name),
                            VnVenueData[i].name)

\* seven venues, all of them members of a chain with two or more members
C7_Witness ==
    /\ vnPc = "done"
    /\ Len(VnVenueData) = MAX_DISPLAY_ITEMS
    /\ \A i \in 1..Len(VnVenueData) :
          \E j \in 1..Len(VnVenueData) :
              /\ j # i
              /\ Truthy(VnVenueData[i].groupName)
              /\ VnVenueData[j].groupName = VnVenueData[i].groupName

\* the venues of the example: two Picturehouses, five ODEONs and the Rio
ExampleVenueIds == {"p1", "p2", "o1", "o2", "o3", "o4", "o5", "r1"}

ExampleText ==
    <<"2", " ", "P", "i", "c", "t", "u", "r", "e", "h", "o", "u", "s", "e",
      "s", ",", " ", "5", " ", "O", "D", "E", "O", "N", "s", ",", " ", "&",
      " ", "R", "i", "o">>

ExampleHtml ==
    WrapVenue(<<"2", " ", "P", "i", "c", "t", "u", "r", "e", "h", "o", "u",
                "s", "e", "s">>)
    \o CommaSpace
    \o WrapVenue(<<"5", " ", "O", "D", "E", "O", "N", "s">>)
    \o CommaAmpersand
    \o WrapVenue(<<"R", "i", "o">>)

VnIdSet == {vnIds[i] : i \in 1..Len(vnIds)}

\* C8: the rendered entries are in ascending order of their text as
\* localeCompare orders it, in whatever order the venues were collected (the
\* "N more" entry is appended after them), and the example of 2 Picturehouse
\* venues, 5 ODEON venues and the Rio renders as
\* "2 Picturehouses, 5 ODEONs, & Rio".
C8_EntriesInAscendingOrder ==
    vnPc = "done" =>
        /\ \A i \in 1..(Len(vnFinalItems) - 1) :
              LocaleCompare(vnFinalItems[i].text, vnFinalItems[i + 1].text) <= 0
        /\ VnIdSet = ExampleVenueIds =>
              /\ vnVenuesPlainText = ExampleText
              /\ vnVenuesText = ExampleHtml

\* the example has been rendered from ids collected in an order that is
\* not the order of the rendering
C8_Witness ==
    /\ vnPc = "done"
    /\ VnIdSet = ExampleVenueIds
    /\ vnIds[1] = "o3"
    /\ vnIds[Len(vnIds)] = "o4"

\* the documented joiner forms of a list of entries
JoinerForm(entries) ==
    LET n == Len(entries)
    IN  IF n = 0 THEN <<>>
        ELSE IF n = 1 THEN entries[1]
        ELSE IF n = 2 THEN entries[1] \o Ampersand \o entries[2]
        ELSE Join(SubSeq(entries, 1, n - 1), CommaSpace)
             \o CommaAmpersand \o entries[n]

\* the entries that are rendered: the kept items, then the "N more" entry
VnEntries ==
    Map(vnFinalItems, LAMBDA item : item.text)
    \o (IF vnMoreVenueCount > 0 THEN <<MoreEntry(vnMoreVenueCount)>> ELSE <<>>)

\* C9: both renderings use the documented joiner forms: nothing for no
\* entry, the entry alone for one, "A & B" for two, and for three or more
\* the entries joined by ", " with ", & " before the last, which is the
\* "N more" entry when there is one; the HTML rendering wraps every entry.
C9_JoinerForms ==
    vnPc = "done" =>
        /\ vnVenuesPlainText = JoinerForm(VnEntries)
        /\ vnVenuesText = JoinerForm(Map(VnEntries, WrapVenue))

\* three entries without an "N more" entry, one of them with a character
\* that the HTML rendering escapes
C9_Witness ==
    /\ vnPc = "done"
    /\ Len(vnFinalItems) = 3
    /\ vnMoreVenueCount = 0
    /\ \E i \in 1..3 : EscapeHtml(vnFinalItems[i].text) # vnFinalItems[i].text

\* the group names that collect venues: the non-empty ones
VnGroupNames ==
    {VnVenueData[i].groupName : i \in 1..Len(VnVenueData)} \ {Undefined, <<>>}

VnMembers(g) == {i \in 1..Len(VnVenueData) : VnVenueData[i].groupName = g}

VnUngrouped ==
    {i \in 1..Len(VnVenueData) : VnVenueData[i].groupName \in {Undefined, <<>>}}

\* the item the claim gives a group: "<count> <plural>" for two members or
\* more, the bare name of the venue for a single member
ExpectedGroupItem(g) ==
    LET n == Cardinality(VnMembers(g))
    IN  IF n >= 2
        THEN [text |-> NatToStr(n) \o <<" ">>
                       \o (IF g[Len(g)] = "s" THEN g ELSE Append(g, "s")),
              venueCount |-> n]
        ELSE [text |-> VnVenueData[CHOOSE i \in VnMembers(g) : TRUE].name,
              venueCount |-> 1]

\* the number of times the claim gives the item
ExpectedCount(item) ==
    Cardinality({g \in VnGroupNames : ExpectedGroupItem(g) = item})
    + Cardinality({i \in VnUngrouped :
                      [text |-> VnVenueData[i].name, venueCount |-> 1] = item})

ExpectedTotal == Cardinality(VnGroupNames) + Cardinality(VnUngrouped)

\* C20: for more than 7 venues the display items are one item per group
\* name and one per venue without a group name: a group of two members or
\* more is "<count> <plural>" with the count of its members as venueCount
\* (the plural is the name plus "s" unless the name ends in "s"), a group of
\* one member is the bare name of its venue, a venue without a group name is
\* its own name; all of them are kept when they are 7 or fewer, the first
\* 6 in sorted order otherwise.
C20_GroupsCollapseAboveSeven ==
    (vnPc = "done" /\ Len(VnVenueData) > MAX_DISPLAY_ITEMS) =>
        /\ \A i \in 1..Len(vnFinalItems) :
              Occurrences(vnFinalItems, vnFinalItems[i])
              <= ExpectedCount(vnFinalItems[i])
        /\ Len(vnFinalItems)
           = (IF ExpectedTotal > MAX_DISPLAY_ITEMS THEN MAX_DISPLAY_ITEMS - 1
              ELSE ExpectedTotal)

\* more than 7 venues with a collapsed group whose name ends in "s", a
\* collapsed group whose name does not, a group of one member and a venue
\* without a group name
C20_Witness ==
    /\ vnPc = "done"
    /\ Len(VnVenueData) > MAX_DISPLAY_ITEMS
    /\ \E i \in 1..Len(vnFinalItems) :
          vnFinalItems[i]
          = [text |-> <<"2", " ", "B", "F", "I", " ", "C", "i", "n", "e", "m",
                        "a", "s">>,
             venueCount |-> 2]
    /\ \E i \in 1..Len(vnFinalItems) :
          vnFinalItems[i]
          = [text |-> <<"5", " ", "O", "D", "E", "O", "N", "s">>,
             venueCount |-> 5]
    /\ \E i \in 1..Len(vnFinalItems) :
          vnFinalItems[i]
          = [text |-> <<"C", "u", "r", "z", "o", "n", " ", "S", "o", "h", "o">>,
             venueCount |-> 1]
    /\ \E i \in 1..Len(vnFinalItems) :
          vnFinalItems[i] = [text |-> <<"R", "i", "o">>, venueCount |-> 1]

\* the display items before the truncation, in sorted order
VnSortedItems == SortDisplayItems(DisplayItems(VnVenueData))

\* C21: the rendered list has 7 entries at most: of more than 7 sorted
\* display items exactly the first 6 are kept and the "N more" entry stands
\* for the rest, N being the sum of the venue counts of the removed items;
\* of 7 items or fewer all are kept and there is no "N more" entry.
C21_AtMostSevenEntries ==
    vnPc = "done" =>
        /\ Len(VnEntries) <= 7
        /\ IF Len(VnSortedItems) > 7
           THEN /\ vnFinalItems = SubSeq(VnSortedItems, 1, 6)
                /\ vnMoreVenueCount
                   = SumVenueCount(SubSeq(VnSortedItems, 7, Len(VnSortedItems)))
                /\ VnEntries[Len(VnEntries)] = MoreEntry(vnMoreVenueCount)
           ELSE /\ vnFinalItems = VnSortedItems
                /\ vnMoreVenueCount = 0
                /\ Len(VnEntries) = Len(VnSortedItems)

\* a truncated list whose removed items stand for more venues than there
\* are removed items
C21_Witness ==
    /\ vnPc = "done"
    /\ Len(VnSortedItems) > 7
    /\ vnMoreVenueCount > Len(VnSortedItems) - 6

\* the ids that the venue table knows, and whether one of them has no name
VnKnownIds == SelectSeq(vnIds, LAMBDA id : id \in DOMAIN DataVenues)

VnHasNameless ==
    \E i \in 1..Len(VnKnownIds) : DataVenues[VnKnownIds[i]].name = Undefined

\* C22: a venue without a name does not make the aggregation fail: for
\* every set of venues with a nameless venue the items are built, sorted
\* and rendered.
C22_NamelessVenueRenders ==
    (vnPc # "start" /\ VnHasNameless) => vnPc = "done"

\* C23: an id that the venue table does not know is dropped without error
\* before anything is counted: the venues are grouped only when more than 7
\* known venues remain, the venue counts add up to the number of known
\* venues, 7 known venues or fewer give one entry each with their own
\* names, and the aggregation does not fail because of the unknown id.
C23_MissingVenueDropped ==
    (vnPc # "start" /\ MissingVenueId \in VnIdSet) =>
        /\ ~VnHasNameless => vnPc = "done"
        /\ vnPc = "done" =>
              /\ SumVenueCount(vnFinalItems) + vnMoreVenueCount
                 = Len(VnKnownIds)
              /\ Len(VnKnownIds) <= MAX_DISPLAY_ITEMS =>
                    /\ Len(vnFinalItems) = Len(VnKnownIds)
                    /\ vnMoreVenueCount = 0
                    /\ \A i \in 1..Len(VnKnownIds) :
                          Occurrences(Map(vnFinalItems, LAMBDA item : item.text),
                                      DataVenues[VnKnownIds[i]].name)
                          = Occurrences(Map(VnKnownIds,
                                            LAMBDA id : DataVenues[id].name),
                                        DataVenues[VnKnownIds[i]].name)

\* eight ids, one of them unknown, the seven known venues all members of
\* chains: the venues are listed one by one
C23_Witness ==
    /\ vnPc = "done"
    /\ MissingVenueId \in VnIdSet
    /\ Len(vnIds) = MAX_DISPLAY_ITEMS + 1
    /\ Len(vnFinalItems) = MAX_DISPLAY_ITEMS
    /\ \A i \in 1..Len(VnKnownIds) :
          Truthy(DataVenues[VnKnownIds[i]].groupName)

\* every occurrence of pat in s replaced
ReplaceEvery(s, pat, by) == Join(Split(s, pat), by)

\* the text a reader of the HTML sees: the span tags removed, the character
\* references decoded
TextOfHtml(html) ==
    LET bare == ReplaceEvery(ReplaceEvery(html, SpanOpen, <<>>), SpanClose, <<>>)
        lt == ReplaceEvery(bare, EscapeChar("<"), <<"<">>)
        gt == ReplaceEvery(lt, EscapeChar(">"), <<">">>)
        quot == ReplaceEvery(gt, EscapeChar("\""), <<"\"">>)
        apos == ReplaceEvery(quot, EscapeChar("'"), <<"'">>)
    IN  ReplaceEvery(apos, EscapeChar("&"), <<"&">>)

\* the number of span elements of the HTML
SpanCount(html) == Len(Split(html, SpanOpen)) - 1

\* C30: the two renderings agree: the HTML rendering, its span tags removed
\* and its character references decoded, is the plain rendering (the same
\* entries, order, joiners and "N more" count), and it has one span per
\* entry.
C30_RenderingsAgree ==
    vnPc = "done" =>
        /\ TextOfHtml(vnVenuesText) = vnVenuesPlainText
        /\ SpanCount(vnVenuesText) = Len(VnEntries)
        /\ SpanCount(vnVenuesText) = Len(Split(vnVenuesText, SpanClose)) - 1

\* a truncated list with an entry that the HTML rendering escapes
C30_Witness ==
    /\ vnPc = "done"
    /\ vnMoreVenueCount > 0
    /\ \E i \in 1..Len(vnFinalItems) :
          EscapeHtml(vnFinalItems[i].text) # vnFinalItems[i].text

---------------------------------------------------------------------------
(* generateCollageHtml: the posters of the movies, shuffled and laid out on
   a grid *)

\* Math.ceil(Math.sqrt(count))
CeilSqrt(count) == CHOOSE c \in 0..count : c * c >= count /\ \A d \in 0..(c - 1) : d * d < count

\* a variant of Shuffles that draws every place of the result from the
\* whole array
ShufflesWithRepeats(movies) == [1..Len(movies) -> {movies[i] : i \in 1..Len(movies)}]

\* [...movies].sort(() => Math.random() - 0.5): the comparator answers at
\* random, so the copy can come back in any order of its elements
Shuffles(movies) ==
    {[i \in 1..Len(movies) |-> movies[perm[i]]] :
        perm \in Permutations(1..Len(movies))}

\* the poster item of the movie at the given index of the shuffled array
PosterItem(movie, index, cols) ==
    [src |-> movie.posterUrl,
     alt |-> EscapeHtml(movie.title),
     col |-> index % cols,
     row |-> index \div cols,
     zIndex |-> index]

PosterItems(shuffled) ==
    LET cols == CeilSqrt(Len(shuffled))
    IN  [i \in 1..Len(shuffled) |-> PosterItem(shuffled[i], i - 1, cols)]

MaxCollageMovies == 4

ClCatalogue ==
    [A |-> [title |-> <<"A", "l", "i", "e", "n">>, posterUrl |-> <<"a", ".", "j", "p", "g">>],
     B |-> [title |-> <<"B", "r", "a", "z", "i", "l">>, posterUrl |-> <<"b", ".", "j", "p", "g">>],
     Q |-> [title |-> <<"Q", " ", "&", " ", "A">>, posterUrl |-> <<"q", ".", "j", "p", "g">>]]

ClMovieList == Map(clMovies, LAMBDA k : ClCatalogue[k])

ClInit ==
    /\ clMovies \in UNION {[1..n -> DOMAIN ClCatalogue] : n \in 0..MaxCollageMovies}
    /\ clPc = "start"
    /\ clPosterItems = <<>>
    /\ IgIdle
    /\ TwIdle
    /\ VnIdle
    /\ LyIdle
    /\ LcIdle
    /\ RnIdle
    /\ RsIdle

GenerateCollageHtml ==
    /\ clPc = "start"
    /\ \E shuffled \in Shuffles(ClMovieList) :
          clPosterItems' = PosterItems(shuffled)
    /\ clPc' = "done"
    /\ UNCHANGED <<clMovies, igVars, twVars, vnVars, lyVars, lcVars, rnVars, rsVars>>

ClNext == GenerateCollageHtml

SpecCollage == ClInit /\ [][ClNext]_vars

---------------------------------------------------------------------------
(* Properties of the collage *)

\* the source and the alternative text of the poster of a movie
PosterOf(movie) == [src |-> movie.posterUrl, alt |-> EscapeHtml(movie.title)]

ClPosters == Map(clPosterItems, LAMBDA item : [src |-> item.src, alt |-> item.alt])

\* C10: for one movie or more there are exactly as many poster items as
\* movies, every movie has as many items as it has entries in the list
\* (the shuffle neither drops nor repeats a movie), and the z-index of an
\* item is its position in the emitted sequence, so the z-indices are
\* 0..count-1, each used once.
C10_OnePlacementPerMovie ==
    (clPc = "done" /\ Len(clMovies) >= 1) =>
        /\ Len(clPosterItems) = Len(clMovies)
        /\ \A i \in 1..Len(ClMovieList) :
              Occurrences(ClPosters, PosterOf(ClMovieList[i]))
              = Occurrences(Map(ClMovieList, PosterOf), PosterOf(ClMovieList[i]))
        /\ \A i \in 1..Len(clPosterItems) : clPosterItems[i].zIndex = i - 1
        /\ \A z \in 0..(Len(clMovies) - 1) :
              Cardinality({i \in 1..Len(clPosterItems) :
                              clPosterItems[i].zIndex = z}) = 1

\* a collage of three movies or more whose posters are not in the order of
\* the movies
C10_Witness ==
    /\ clPc = "done"
    /\ Len(clMovies) >= 3
    /\ ClPosters # Map(ClMovieList, PosterOf)

\* C16: the placements are determined by what the caller passes to
\* generateCollageHtml: for one list of movies (and one template) every
\* outcome the generator can produce is the same sequence of poster items.
C16_PlacementsDeterminedByArguments ==
    clPc = "done" =>
        \A shuffled \in Shuffles(ClMovieList) :
            clPosterItems = PosterItems(shuffled)

---------------------------------------------------------------------------
(* generateCollageHtml, the layout: the size of the posters, the grid, and
   one call of the map callback per step.  Percentages are fixed-point
   numbers in thousandths (rounded down), the emitted ones in tenths as
   toFixed(1) prints them; Math.random() is a number of thousandths. *)

Milli == 10 ^ 3

POSTER_AREA == [minX |-> 5 * Milli, maxX |-> 95 * Milli,
                minY |-> 5 * Milli, maxY |-> 88 * Milli]

RADIAL_EXPANSION == (11 * Milli) \div 10

JITTER_FACTOR == (5 * Milli) \div 10

MAX_ROTATION_DEG == 8

BASE_POSTER_COUNT == 28

BASE_POSTER_WIDTH == 18

MAX_POSTER_WIDTH == 30

MaxPosterCount == 27

\* Math.sqrt of a number of millionths, in thousandths
SqrtMilli(x) ==
    CHOOSE r \in 0..(6 * Milli) : r * r <= x /\ (r + 1) * (r + 1) > x

\* scaleFactor = Math.sqrt(BASE_POSTER_COUNT / count), count >= 1
ScaleFactorTable ==
    [count \in 1..(MaxPosterCount + 1) |->
        SqrtMilli((BASE_POSTER_COUNT * Milli * Milli) \div count)]

ScaleFactor(count) == ScaleFactorTable[count]

\* x.toFixed(1) of a number of thousandths, in tenths
ToFixed1(x) == (x + 50) \div 100

\* a variant of PosterWidth without the upper limit
PosterWidthUnclamped(count) ==
    IF count = 0 THEN ToFixed1(MAX_POSTER_WIDTH * Milli)
    ELSE ToFixed1(BASE_POSTER_WIDTH * ScaleFactor(count))

\* posterWidth; for count = 0 the scale factor is Infinity and the minimum
\* is MAX_POSTER_WIDTH
PosterWidth(count) ==
    IF count = 0 THEN ToFixed1(MAX_POSTER_WIDTH * Milli)
    ELSE LET scaled == BASE_POSTER_WIDTH * ScaleFactor(count)
         IN  ToFixed1(IF scaled < MAX_POSTER_WIDTH * Milli
                      THEN scaled ELSE MAX_POSTER_WIDTH * Milli)

\* dynamicExpansion = RADIAL_EXPANSION + (scaleFactor - 1) * 0.01
DynamicExpansion(count) ==
    RADIAL_EXPANSION + (ScaleFactor(count) - Milli) \div 100

Cols(count) == CeilSqrt(count)

\* a variant of Rows that rounds count / cols down
RowsRoundedDown(count) == count \div Cols(count)

\* rows = Math.ceil(count / cols), cols >= 1
Rows(count) == (count + Cols(count) - 1) \div Cols(count)

CellWidth(count) == (POSTER_AREA.maxX - POSTER_AREA.minX) \div Cols(count)

CellHeight(count) == (POSTER_AREA.maxY - POSTER_AREA.minY) \div Rows(count)

CenterX == (POSTER_AREA.minX + POSTER_AREA.maxX) \div 2

CenterY == (POSTER_AREA.minY + POSTER_AREA.maxY) \div 2

\* (Math.random() - 0.5) * cell * JITTER_FACTOR
Jitter(random, cell) ==
    ((random - Milli \div 2) * cell) \div ((Milli * Milli) \div JITTER_FACTOR)

\* centre + (pos - centre) * dynamicExpansion
PushOutward(pos, centre, expansion) ==
    centre + ((pos - centre) * expansion) \div Milli

\* posX after the jitter and the push from the centre
PosX(count, index, random) ==
    LET cellWidth == CellWidth(count)
        col == index % Cols(count)
    IN  PushOutward(POSTER_AREA.minX + cellWidth \div 2 + col * cellWidth
                        + Jitter(random, cellWidth),
                    CenterX, DynamicExpansion(count))

\* posY after the jitter and the push from the centre
PosY(count, index, random) ==
    LET cellHeight == CellHeight(count)
        row == index \div Cols(count)
    IN  PushOutward(POSTER_AREA.minY + cellHeight \div 2 + row * cellHeight
                        + Jitter(random, cellHeight),
                    CenterY, DynamicExpansion(count))

\* (Math.random() * MAX_ROTATION_DEG * 2 - MAX_ROTATION_DEG).toFixed(1)
Rotation(random) ==
    ToFixed1(random * MAX_ROTATION_DEG * 2 - MAX_ROTATION_DEG * Milli)

\* what Math.random() returns: the least value, the middle and the
\* greatest value below 1
RandomOutcomes == {0, Milli \div 2, Milli - 1}

LyInit ==
    /\ lyCount \in 0..MaxPosterCount
    /\ lyPc = "start"
    /\ lyIndex = 0
    /\ lyPosterWidth = 0
    /\ lyStyle = <<>>
    /\ IgIdle
    /\ TwIdle
    /\ VnIdle
    /\ ClIdle
    /\ LcIdle
    /\ RnIdle
    /\ RsIdle

\* from the start of generateCollageHtml to the map over shuffled
LayoutGrid ==
    /\ lyPc = "start"
    /\ lyPosterWidth' = PosterWidth(lyCount)
    /\ lyPc' = IF lyCount = 0 THEN "done" ELSE "map"
    /\ UNCHANGED <<lyCount, lyIndex, lyStyle, igVars, twVars, vnVars, clVars, lcVars,
                   rnVars, rsVars>>

\* one call of the map callback, for the movie at lyIndex
PlacePoster ==
    /\ lyPc = "map"
    /\ \E randomX \in RandomOutcomes, randomY \in RandomOutcomes,
          randomRotation \in RandomOutcomes :
          lyStyle' = [left |-> ToFixed1(PosX(lyCount, lyIndex, randomX)),
                      top |-> ToFixed1(PosY(lyCount, lyIndex, randomY)),
                      width |-> lyPosterWidth,
                      rotation |-> Rotation(randomRotation),
                      zIndex |-> lyIndex]
    /\ lyIndex' = lyIndex + 1
    /\ lyPc' = IF lyIndex + 1 = lyCount THEN "done" ELSE "map"
    /\ UNCHANGED <<lyCount, lyPosterWidth, igVars, twVars, vnVars, clVars, lcVars,
                   rnVars, rsVars>>

LyNext == LayoutGrid \/ PlacePoster

SpecLayout == LyInit /\ [][LyNext]_vars

---------------------------------------------------------------------------
(* Properties of the layout *)

\* C11: the left percentage of every poster item lies within [5, 95] and
\* its top percentage within [5, 88], after the jitter and the push from
\* the centre.
C11_PostersInsideArea ==
    lyStyle # <<>> =>
        /\ ToFixed1(POSTER_AREA.minX) <= lyStyle.left
        /\ lyStyle.left <= ToFixed1(POSTER_AREA.maxX)
        /\ ToFixed1(POSTER_AREA.minY) <= lyStyle.top
        /\ lyStyle.top <= ToFixed1(POSTER_AREA.maxY)

\* w tenths is 18 * sqrt(28 / count), give or take a tenth and a half:
\* (w - 1.5)^2 * count <= 18^2 * 28 <= (w + 1.5)^2 * count
IsScaledWidth(w, count) ==
    LET target == 4 * 100 * BASE_POSTER_WIDTH * BASE_POSTER_WIDTH
                  * BASE_POSTER_COUNT
    IN  /\ (2 * w - 3) * (2 * w - 3) * count <= target
        /\ target <= (2 * w + 3) * (2 * w + 3) * count

CellOf(count, index) ==
    [col |-> index % Cols(count), row |-> index \div Cols(count)]

\* C29: for a collage of count >= 1 posters the grid has
\* cols = ceil(sqrt(count)) columns and rows = ceil(count / cols) rows and
\* so at least count cells; every item, placed by its index, is in a cell
\* inside the grid, and no two items are in the same cell.
C29_GridHoldsEveryItem ==
    (lyPc # "start" /\ lyCount >= 1) =>
        \E cols \in {Cols(lyCount)}, rows \in {Rows(lyCount)} :
            /\ (cols - 1) * (cols - 1) < lyCount
            /\ lyCount <= cols * cols
            /\ (rows - 1) * cols < lyCount
            /\ lyCount <= rows * cols
            /\ \A i \in 0..(lyCount - 1) :
                  /\ CellOf(lyCount, i).col \in 0..(cols - 1)
                  /\ CellOf(lyCount, i).row \in 0..(rows - 1)
            /\ \A i, j \in 0..(lyCount - 1) :
                  CellOf(lyCount, i) = CellOf(lyCount, j) => i = j
            /\ lyStyle # <<>> => lyStyle.zIndex \div cols < rows

\* the last poster of a collage of seven: a grid of three by three whose
\* last row has one item and two free cells
C29_Witness ==
    /\ lyPc = "done"
    /\ lyCount = 7
    /\ lyStyle # <<>>
    /\ lyStyle.zIndex = 6
    /\ CellOf(lyCount, lyStyle.zIndex) = [col |-> 0, row |-> 2]
    /\ Cols(lyCount) * Rows(lyCount) = 9

---------------------------------------------------------------------------
(* getStartOfWeek, getEndOfWeek and findLastChanceMovies, with the two
   passes runSpotlight makes over data.movies.  An instant is a number of
   milliseconds of local time since 00:00 of the Monday of the first week;
   no clock change falls in the two weeks that are modelled. *)

Minute == 60 * 1000

Hour == 60 * Minute

Day == 24 * Hour

\* now.getDay(): 0 for a Sunday, 6 for a Saturday
GetDay(now) == ((now \div Day) + 1) % 7

\* 00:00 of the day of the instant
StartOfDay(now) == (now \div Day) * Day

GetStartOfWeek(now) ==
    LET dayOfWeek == GetDay(now)
        daysFromMonday == IF dayOfWeek = 0 THEN 6 ELSE dayOfWeek - 1
    IN  StartOfDay(now) - daysFromMonday * Day

GetEndOfWeek(now) ==
    LET dayOfWeek == GetDay(now)
        daysUntilEndOfWeek == 7 - dayOfWeek
    IN  StartOfDay(now) + daysUntilEndOfWeek * Day + (Day - 1)

MIN_DURATION_MS == 60 * 60 * 1000

MIN_IMDB_RATING == 5

MAX_PERFORMANCES == 4

MAX_VENUES == 2

\* the days of the first week, and a day of the week after it
Monday == 0 * Day

Saturday == 5 * Day

Sunday == 6 * Day

NextWednesday == 9 * Day

\* the id findGenreIdByName finds for "Uncategorised"
UncategorisedGenreId == "g0"

\* data.movies (with the rating of imdbRatings, 0 when there is none): a
\* movie that meets every filter, movies that fail one filter each, and
\* movies whose selection depends on the time of the pass
LcCatalogue ==
    [good |->
        [title |-> <<"G", "o", "o", "d">>,
         duration |-> 100 * Minute, genres |-> {"g1"},
         posterPath |-> <<"/", "p">>, actors |-> 2, rating |-> 7,
         performances |->
             <<[time |-> Sunday + 20 * Hour, showingId |-> "s1"]>>,
         showings |-> [s1 |-> "v1"]],
     brief |->
        [title |-> <<"B", "r", "i", "e", "f">>,
         duration |-> 30 * Minute, genres |-> {"g1"},
         posterPath |-> <<"/", "p">>, actors |-> 2, rating |-> 7,
         performances |->
             <<[time |-> Sunday + 20 * Hour, showingId |-> "s1"]>>,
         showings |-> [s1 |-> "v1"]],
     event |->
        [title |-> <<"E", "v", "e", "n", "t">>,
         duration |-> 100 * Minute, genres |-> {"g0", "g1"},
         posterPath |-> <<"/", "p">>, actors |-> 2, rating |-> 7,
         performances |->
             <<[time |-> Sunday + 20 * Hour, showingId |-> "s1"]>>,
         showings |-> [s1 |-> "v1"]],
     blank |->
        [title |-> <<"B", "l", "a", "n", "k">>,
         duration |-> 100 * Minute, genres |-> {"g1"},
         posterPath |-> Undefined, actors |-> 2, rating |-> 7,
         performances |->
             <<[time |-> Sunday + 20 * Hour, showingId |-> "s1"]>>,
         showings |-> [s1 |-> "v1"]],
     docu |->
        [title |-> <<"D", "o", "c", "u">>,
         duration |-> 100 * Minute, genres |-> {"g1"},
         posterPath |-> <<"/", "p">>, actors |-> 0, rating |-> 7,
         performances |->
             <<[time |-> Sunday + 20 * Hour, showingId |-> "s1"]>>,
         showings |-> [s1 |-> "v1"]],
     poor |->
        [title |-> <<"P", "o", "o", "r">>,
         duration |-> 100 * Minute, genres |-> {"g1"},
         posterPath |-> <<"/", "p">>, actors |-> 2, rating |-> 4,
         performances |->
             <<[time |-> Sunday + 20 * Hour, showingId |-> "s1"]>>,
         showings |-> [s1 |-> "v1"]],
     obscure |->
        [title |-> <<"O", "b", "s", "c", "u", "r", "e">>,
         duration |-> 100 * Minute, genres |-> {"g1"},
         posterPath |-> <<"/", "p">>, actors |-> 2, rating |-> 0,
         performances |->
             <<[time |-> Sunday + 20 * Hour, showingId |-> "s1"]>>,
         showings |-> [s1 |-> "v1"]],
     busy |->
        [title |-> <<"B", "u", "s", "y">>,
         duration |-> 100 * Minute, genres |-> {"g1"},
         posterPath |-> <<"/", "p">>, actors |-> 2, rating |-> 7,
         performances |->
             <<[time |-> Monday + 20 * Hour, showingId |-> "s1"],
                    [time |-> Saturday + 12 * Hour, showingId |-> "s1"],
                    [time |-> Saturday + 21 * Hour, showingId |-> "s1"],
                    [time |-> Sunday + 12 * Hour, showingId |-> "s1"],
                    [time |-> Sunday + 20 * Hour, showingId |-> "s1"]>>,
         showings |-> [s1 |-> "v1"]],
     wide |->
        [title |-> <<"W", "i", "d", "e">>,
         duration |-> 100 * Minute, genres |-> {"g1"},
         posterPath |-> <<"/", "p">>, actors |-> 2, rating |-> 7,
         performances |->
             <<[time |-> Sunday + 20 * Hour, showingId |-> "s1"]>>,
         showings |-> [s1 |-> "v1", s2 |-> "v2", s3 |-> "v3"]],
     later |->
        [title |-> <<"L", "a", "t", "e", "r">>,
         duration |-> 100 * Minute, genres |-> {"g1"},
         posterPath |-> <<"/", "p">>, actors |-> 2, rating |-> 7,
         performances |->
             <<[time |-> Sunday + 20 * Hour, showingId |-> "s1"],
                    [time |-> NextWednesday + 20 * Hour, showingId |-> "s2"]>>,
         showings |-> [s1 |-> "v1", s2 |-> "v2"]],
     matinee |->
        [title |-> <<"M", "a", "t", "i", "n", "e", "e">>,
         duration |-> 100 * Minute, genres |-> {"g1"},
         posterPath |-> <<"/", "p">>, actors |-> 2, rating |-> 7,
         performances |->
             <<[time |-> Sunday + 11 * Hour, showingId |-> "s1"]>>,
         showings |-> [s1 |-> "v1"]]]

MaxLcMovies == 2

\* the instants at which a pass can read the clock
ClockReadings ==
    {Monday + 9 * Hour, Saturday + 20 * Hour, Sunday + 10 * Hour,
     Sunday + 20 * Hour - 1, Sunday + 20 * Hour}

RECURSIVE MaxTime(_)
\* Math.max(...movie.performances.map((p) => p.time))
MaxTime(performances) ==
    IF Len(performances) = 1 THEN performances[1].time
    ELSE LET rest == MaxTime(Tail(performances))
         IN  IF performances[1].time > rest THEN performances[1].time ELSE rest

UpcomingPerformances(movie, now) ==
    SelectSeq(movie.performances, LAMBDA p : p.time > now)

VenueCount(movie) ==
    Cardinality({movie.showings[s] : s \in DOMAIN movie.showings})

\* the filters every pass applies
PassesBasicFilters(movie, now, endOfWeekTimestamp) ==
    /\ Len(movie.performances) > 0
    /\ movie.duration >= MIN_DURATION_MS
    /\ UncategorisedGenreId \notin movie.genres
    /\ UpcomingPerformances(movie, now) # <<>>
    /\ MaxTime(movie.performances) <= endOfWeekTimestamp

\* the filters of the collage
PassesStrictFilters(movie, now) ==
    /\ Truthy(movie.posterPath)
    /\ movie.actors > 0
    /\ movie.rating >= MIN_IMDB_RATING
    /\ Len(UpcomingPerformances(movie, now)) <= MAX_PERFORMANCES
    /\ VenueCount(movie) <= MAX_VENUES

\* the showing of the latest performance names the last venue
LastVenueId(movie) ==
    LET latest == MaxTime(movie.performances)
        i == CHOOSE i \in 1..Len(movie.performances) :
                /\ movie.performances[i].time = latest
                /\ \A j \in 1..(i - 1) : movie.performances[j].time # latest
    IN  movie.showings[movie.performances[i].showingId]

\* the entry pushed to lastChanceMovies
LastChanceEntry(key, now) ==
    LET movie == LcCatalogue[key]
    IN  [id |-> key,
         title |-> movie.title,
         latestPerformance |-> MaxTime(movie.performances),
         lastVenueId |-> LastVenueId(movie),
         performanceCount |-> Len(UpcomingPerformances(movie, now)),
         venueCount |-> VenueCount(movie),
         rating |-> movie.rating]

\* the keys of data.movies in the order for-in visits them
LcKeyOrder ==
    <<"good", "brief", "event", "blank", "docu", "poor", "obscure", "busy",
      "wide", "later", "matinee">>

FindLastChanceMovies(keys, strictFilters, now) ==
    LET endOfWeekTimestamp == GetEndOfWeek(now)
        kept == SelectSeq(LcKeyOrder,
                    LAMBDA key :
                        /\ key \in keys
                        /\ PassesBasicFilters(LcCatalogue[key], now,
                                              endOfWeekTimestamp)
                        /\ strictFilters =>
                               PassesStrictFilters(LcCatalogue[key], now))
    IN  SortBy([i \in 1..Len(kept) |-> LastChanceEntry(kept[i], now)],
               LAMBDA a, b : LocaleCompare(a.title, b.title) < 0)

LcInit ==
    /\ lcMovies \in {S \in SUBSET DOMAIN LcCatalogue :
                        Cardinality(S) <= MaxLcMovies}
    /\ lcPc = "start"
    /\ lcNow = <<>>
    /\ lcEndOfWeek = 0
    /\ lcCollageMovies = <<>>
    /\ lcAllMovies = <<>>
    /\ IgIdle
    /\ TwIdle
    /\ VnIdle
    /\ ClIdle
    /\ LyIdle
    /\ RnIdle
    /\ RsIdle

\* findMovies(..., { strictFilters: true }), for the collage
FindCollageMovies ==
    /\ lcPc = "start"
    /\ \E now \in ClockReadings :
          /\ lcNow' = <<now>>
          /\ lcEndOfWeek' = GetEndOfWeek(now)
          /\ lcCollageMovies' = FindLastChanceMovies(lcMovies, TRUE, now)
    /\ lcPc' = "collage"
    /\ UNCHANGED <<lcMovies, lcAllMovies, igVars, twVars, vnVars, clVars,
                   lyVars, rnVars, rsVars>>

\* findMovies(..., { strictFilters: false }), for the social text; the
\* clock has not gone back since the first pass
FindAllMovies ==
    /\ lcPc = "collage"
    /\ \E now \in ClockReadings :
          /\ now >= lcNow[1]
          /\ lcNow' = Append(lcNow, now)
          /\ lcEndOfWeek' = GetEndOfWeek(now)
          /\ lcAllMovies' = FindLastChanceMovies(lcMovies, FALSE, now)
    /\ lcPc' = "done"
    /\ UNCHANGED <<lcMovies, lcCollageMovies, igVars, twVars, vnVars, clVars,
                   lyVars, rnVars, rsVars>>

LcNext == FindCollageMovies \/ FindAllMovies

SpecLastChance == LcInit /\ [][LcNext]_vars

---------------------------------------------------------------------------
(* Properties of the selection of movies *)

\* the ids of the entries of a result
IdsOf(entries) == {entries[i].id : i \in 1..Len(entries)}

\* C13: every movie selected for the collage is in the list used for the
\* social text, whatever the instants at which the two passes read the
\* clock.
C13_CollageMoviesAmongAllMovies ==
    lcPc = "done" => IdsOf(lcCollageMovies) \subseteq IdsOf(lcAllMovies)

\* 23:59:59.999 of the Sunday of the week of the instant
EndOfThisWeek(now) == GetStartOfWeek(now) + 7 * Day - 1

\* the collage filters of the README
MeetsCollageFilters(movie, now) ==
    /\ Len(movie.performances) > 0
    /\ MaxTime(movie.performances) <= EndOfThisWeek(now)
    /\ \E i \in 1..Len(movie.performances) : movie.performances[i].time > now
    /\ movie.duration >= 60 * Minute
    /\ UncategorisedGenreId \notin movie.genres
    /\ movie.posterPath # Undefined
    /\ movie.actors >= 1
    /\ movie.rating >= 5
    /\ Cardinality({i \in 1..Len(movie.performances) :
                       movie.performances[i].time > now}) <= 4
    /\ Cardinality({movie.showings[s] : s \in DOMAIN movie.showings}) <= 2

\* C18: the pass with strict filters selects exactly the movies of the
\* catalogue that meet every collage filter of the README.
C18_StrictPassMatchesReadme ==
    lcPc # "start" =>
        IdsOf(lcCollageMovies)
            = {key \in lcMovies : MeetsCollageFilters(LcCatalogue[key], lcNow[1])}

\* C19: getEndOfWeek returns 23:59:59 of the Sunday that ends the week
\* whose Monday 00:00:00 getStartOfWeek returns, on a Sunday the end of that
\* same day: less than 7 days after the start of the week.
C19_EndOfWeekIsThisSunday ==
    lcPc # "start" =>
        LET now == lcNow[Len(lcNow)]
            startOfWeek == GetStartOfWeek(now)
        IN  /\ startOfWeek <= now
            /\ lcEndOfWeek - startOfWeek < 7 * Day
            /\ lcEndOfWeek >= startOfWeek + 7 * Day - 1000
            /\ GetDay(now) = 0 => lcEndOfWeek = StartOfDay(now) + Day - 1

---------------------------------------------------------------------------
(* runSpotlight: the order in which one run generates its contents and
   writes its files.  The instagram text is the call of
   generateInstagramCompactText modelled above, made with the run's
   socialText configuration (which sets no topPicksCount). *)

RnInit ==
    /\ rnPc = "start"
    /\ rnFiles = <<>>
    /\ igMovies \in InjectiveSeqs(DOMAIN IgCatalogue, MaxMovies)
    /\ igTheme \in DOMAIN IgThemes
    /\ igTopPicksCount = <<>>
    /\ igDepth = 0
    /\ igPc = "idle"
    /\ igOutput = <<>>
    /\ igTrace = <<>>
    /\ TwIdle
    /\ VnIdle
    /\ ClIdle
    /\ LyIdle
    /\ LcIdle
    /\ RsIdle

\* the collage is generated and written to site/<name>.html
WriteHtml ==
    /\ rnPc = "start"
    /\ rnFiles' = Append(rnFiles, "html")
    /\ rnPc' = "twitter"
    /\ UNCHANGED <<igVars, twVars, vnVars, clVars, lyVars, lcVars, rsVars>>

\* platforms[0]: the thread is generated and written
WriteTwitterText ==
    /\ rnPc = "twitter"
    /\ rnFiles' = Append(rnFiles, "twitter")
    /\ rnPc' = "instagram"
    /\ UNCHANGED <<igVars, twVars, vnVars, clVars, lyVars, lcVars, rsVars>>

\* platforms[1]: generateInstagramCompactText(allMovies, data.venues,
\* socialTextConfig) is called
CallInstagramCompactText ==
    /\ rnPc = "instagram"
    /\ igPc = "idle"
    /\ igPc' = "call"
    /\ igDepth' = 1
    /\ igTrace' = <<IgTopPicksCount>>
    /\ UNCHANGED <<igMovies, igTheme, igTopPicksCount, igOutput, rnVars,
                   twVars, vnVars, clVars, lyVars, lcVars, rsVars>>

\* the call has returned its text, which is written
WriteInstagramText ==
    /\ rnPc = "instagram"
    /\ igPc = "returned"
    /\ rnFiles' = Append(rnFiles, "instagram")
    /\ rnPc' = "generic"
    /\ UNCHANGED <<igVars, twVars, vnVars, clVars, lyVars, lcVars, rsVars>>

\* the call has thrown: nothing in runSpotlight catches the error
InstagramTextThrows ==
    /\ rnPc = "instagram"
    /\ igPc = "rangeError"
    /\ rnPc' = "failed"
    /\ UNCHANGED <<rnFiles, igVars, twVars, vnVars, clVars, lyVars, lcVars,
                   rsVars>>

\* platforms[2]: the generic text is generated and written
WriteGenericText ==
    /\ rnPc = "generic"
    /\ rnFiles' = Append(rnFiles, "generic")
    /\ rnPc' = "done"
    /\ UNCHANGED <<igVars, twVars, vnVars, clVars, lyVars, lcVars, rsVars>>

RnNext ==
    \/ WriteHtml
    \/ WriteTwitterText
    \/ CallInstagramCompactText
    \/ GenerateInstagramCompactText
    \/ WriteInstagramText
    \/ InstagramTextThrows
    \/ WriteGenericText

SpecRun == RnInit /\ [][RnNext]_vars

\* C14: when a formatting step of a run has failed, the run has written no
\* file: neither the html file nor a text file.
C14_NoWriteBeforeFormattingSucceeded ==
    rnPc = "failed" => rnFiles = <<>>

---------------------------------------------------------------------------
(* Two runs of runSpotlight in two processes that share the directories
   site/ and output/.  A step of a run is one of its writes, or its call of
   getTimestamp; the clock is in seconds. *)

Runs == {1, 2}

\* config.name of the two spotlights
SpotlightNames == {"last-chance", "new-films"}

\* the movies a run finds in the data it loaded
RsMovieLists == {<<"A", "B">>, <<"A", "Q">>}

MaxClock == 90

\* getTimestamp: the date and the time of day down to the minute
GetTimestamp(clock) == clock \div 60

platformNames == <<"twitter", "instagram", "generic">>

\* path.join(siteDir, `${name}.html`)
HtmlPath(name) == <<"site", name>>

\* path.join(outputDir, `${name}-${platformNames[i]}_${timestamp}.txt`)
OutputPath(name, platform, timestamp) == <<"output", name, platform, timestamp>>

\* the text of a platform, which the movies and the configuration determine
TextOf(r, platform) ==
    [name |-> rsTheme[r], platform |-> platform, movies |-> rsData[r]]

\* fs.writeFileSync(path, content) by run r: the file is created or replaced
WriteFileSync(files, path, r, content) ==
    [q \in DOMAIN files \cup {path} |->
        IF q = path THEN [writer |-> r, content |-> content] ELSE files[q]]

RsInit ==
    /\ rsTheme \in [Runs -> SpotlightNames]
    /\ rsData \in [Runs -> RsMovieLists]
    /\ rsPc = [r \in Runs |-> "start"]
    /\ rsHtml = [r \in Runs |-> <<>>]
    /\ rsTimestamp = [r \in Runs |-> <<>>]
    /\ rsClock = 0
    /\ rsFiles = <<>>
    /\ IgIdle
    /\ TwIdle
    /\ VnIdle
    /\ ClIdle
    /\ LyIdle
    /\ LcIdle
    /\ RnIdle

\* generateCollageHtml and the write of site/<name>.html
RsWriteHtml(r) ==
    /\ rsPc[r] = "start"
    /\ \E shuffled \in Shuffles(Map(rsData[r], LAMBDA k : ClCatalogue[k])) :
          /\ rsHtml' = [rsHtml EXCEPT ![r] = PosterItems(shuffled)]
          /\ rsFiles' = WriteFileSync(rsFiles, HtmlPath(rsTheme[r]), r,
                                      PosterItems(shuffled))
    /\ rsPc' = [rsPc EXCEPT ![r] = "timestamp"]
    /\ UNCHANGED <<rsTheme, rsData, rsTimestamp, rsClock, igVars, twVars,
                   vnVars, clVars, lyVars, lcVars, rnVars>>

\* const timestamp = getTimestamp()
RsGetTimestamp(r) ==
    /\ rsPc[r] = "timestamp"
    /\ rsTimestamp' = [rsTimestamp EXCEPT ![r] = <<GetTimestamp(rsClock)>>]
    /\ rsPc' = [rsPc EXCEPT ![r] = "twitter"]
    /\ UNCHANGED <<rsTheme, rsData, rsHtml, rsClock, rsFiles, igVars, twVars,
                   vnVars, clVars, lyVars, lcVars, rnVars>>

\* one iteration of platforms.forEach: the text is generated and written
RsWriteText(r) ==
    /\ \E i \in 1..Len(platformNames) :
          /\ rsPc[r] = platformNames[i]
          /\ rsFiles' = WriteFileSync(rsFiles,
                            OutputPath(rsTheme[r], platformNames[i],
                                       rsTimestamp[r][1]),
                            r, TextOf(r, platformNames[i]))
          /\ rsPc' = [rsPc EXCEPT ![r] =
                        IF i < Len(platformNames) THEN platformNames[i + 1]
                        ELSE "done"]
    /\ UNCHANGED <<rsTheme, rsData, rsHtml, rsTimestamp, rsClock, igVars,
                   twVars, vnVars, clVars, lyVars, lcVars, rnVars>>

\* time passes
RsTick ==
    /\ rsClock + 30 <= MaxClock
    /\ rsClock' = rsClock + 30
    /\ UNCHANGED <<rsTheme, rsData, rsPc, rsHtml, rsTimestamp, rsFiles,
                   igVars, twVars, vnVars, clVars, lyVars, lcVars, rnVars>>

RsNext ==
    \/ \E r \in Runs : RsWriteHtml(r)
    \/ \E r \in Runs : RsGetTimestamp(r)
    \/ \E r \in Runs : RsWriteText(r)
    \/ RsTick

SpecRuns == RsInit /\ [][RsNext]_vars

\* the paths a finished run has written
RsPathsOf(r) ==
    {HtmlPath(rsTheme[r])}
    \cup {OutputPath(rsTheme[r], platformNames[i], rsTimestamp[r][1]) :
             i \in 1..Len(platformNames)}

\* what the run wrote to the path
RsContentOf(r, path) ==
    IF path[1] = "site" THEN rsHtml[r] ELSE TextOf(r, path[3])

\* C17: when two concurrent runs have finished, every file a run has
\* written holds what that run wrote to it, and the other run has not
\* written it: runs of the same theme started in the same minute included.
C17_RunsDoNotInterfere ==
    (\A r \in Runs : rsPc[r] = "done") =>
        \A r \in Runs :
            \A path \in RsPathsOf(r) :
                /\ rsFiles[path].writer = r
                /\ rsFiles[path].content = RsContentOf(r, path)

=============================================================================
